---- MODULE Spec2Model ----
(***************************************************************************)
(* Verification model of moltbook_data: the retrying fetch client          *)
(* (core.AsyncHttpClient.get), the batch orchestrator (core.run_batch) and *)
(* the three-phase mirror run (moltbook.download_moltbook) with process    *)
(* kill and checkpoint-based resume.                                       *)
(* The library functions core.atomic_write, core.DownloadState.save/load   *)
(* and core.paginate are modelled on their own as well.                    *)
(*                                                                         *)
(* The specifications share the variables below:                           *)
(*   SpecGet    one client instance serving successive get calls           *)
(*   SpecBatch  one call of run_batch                                      *)
(*   SpecRun    successive runs of download_moltbook on one data directory *)
(*   SpecWrite  one call of atomic_write, with a kill at any step          *)
(*   SpecCk     DownloadState.save and DownloadState.load on one file      *)
(*   SpecPage   one call of paginate against an arbitrary server           *)
(***************************************************************************)
EXTENDS Integers, Sequences, FiniteSets, TLC

(***************************************************************************)
(* Bounds of the model                                                     *)
(***************************************************************************)
\* largest configured ScraperConfig.max_retries explored
MaxRetries == 2
\* number of successive get calls on one client instance
MaxCalls == 2
\* longest job.items explored
MaxItems == 3
\* largest batch_size explored
MaxBatchSize == 2
\* largest job.checkpoint_interval explored
MaxInterval == 2
\* comments the remote post P1 can grow to
MaxCount == 1
\* config.max_concurrent of the runs of download_moltbook
MaxConcurrent == 1
\* page requests of one paginate call that are explored
MaxPages == 2
\* longest items array of one page
MaxPageLen == 2
\* largest next_offset the server declares
MaxOffset == 2

(***************************************************************************)
(* Part 1.  AsyncHttpClient.get                                            *)
(***************************************************************************)
VARIABLES
    max_retries,      \* self.config.max_retries
    request_count,    \* self.request_count
    not_found_count,  \* self.not_found_count
    g_pc,             \* position of the current get call
    attempt,          \* loop variable of get
    last_error,       \* local last_error of get (TRUE once set)
    g_result,         \* what the call returned: a document, "absent", or "raised"
    g_hist,           \* the server's answers to the attempts of the current call
    g_sleeps,         \* backoff sleeps of the current call
    g_calls,          \* get calls started on this client instance
    g_rc0,            \* request_count when the current call started
    g_nf0             \* not_found_count when the current call started

getVars == <<max_retries, request_count, not_found_count, g_pc, attempt,
             last_error, g_result, g_hist, g_sleeps, g_calls, g_rc0, g_nf0>>

(***************************************************************************)
(* Part 2.  run_batch: state                                               *)
(***************************************************************************)
VARIABLES
    items,                \* job.items
    batch_size,           \* batch_size (config.max_concurrent unless overridden)
    checkpoint_interval,  \* job.checkpoint_interval
    checkpoint_path,      \* TRUE when a checkpoint path is given, FALSE for None
    on_result,            \* TRUE when job.on_result is given
    b_pc,                 \* position in run_batch
    i,                    \* start index of the current batch (0-based, as in the code)
    batch,                \* job.items[i:i + batch_size]
    pending,              \* positions of the batch whose fetch has not settled
    results,              \* results of the gather, by position
    j,                    \* position of the zip loop in the batch (1-based)
    completed,            \* completed
    failed,               \* failed
    phases,               \* state.phases: phase name -> set of done identifiers
    files,                \* save_dir: file name -> content ("none" when no such file)
    ckpt,                 \* the checkpoint file: saved phases, or "none"
    ckpt_tmp,             \* the checkpoint's temporary file, or "none"
    save_ret,             \* where state.save returns to
    collected,            \* the calls on_result has received, in order
    b_log,                \* per-item steps taken, in order
    b_saves,              \* checkpoint saves completed by this call
    b_outcomes            \* what each fetch settled to, by position in job.items

batchVars == <<items, batch_size, checkpoint_interval, checkpoint_path, on_result,
               b_pc, i, batch, pending, results, j, completed, failed, phases,
               files, ckpt, ckpt_tmp, save_ret, collected, b_log, b_saves, b_outcomes>>

(***************************************************************************)
(* Part 3.  download_moltbook: state                                       *)
(***************************************************************************)
VARIABLES
    r_pc,           \* position in download_moltbook; "idle" when no run is active
    resume,         \* the resume argument of the current run
    max_concurrent, \* config.max_concurrent
    state,          \* the in-memory DownloadState of the current run
    d_ckpt,         \* data_dir/checkpoint.json
    d_files,        \* the item files under posts/, submolts/, agents/
    d_archive,      \* the documents stored under posts/archive/<post id>/
    remote_count,   \* the remote service: number of comments on post P1
    endpoint,       \* paginate: the endpoint being walked
    offset,         \* paginate: offset
    all_items,      \* paginate: all_items
    phase,          \* which of the three phase loops is running
    work,           \* all_posts_to_fetch / submolts_to_fetch / agents_to_fetch
    refresh_ids,    \* refresh_ids
    r_i,            \* start index of the current batch of the phase loop
    r_batch,        \* batch
    r_pending,      \* positions of the batch whose fetch has not settled
    r_results,      \* results of the gather
    r_j,            \* position of the zip loop in the batch
    r_completed,    \* completed of the phase loop
    save_to,        \* where the running state.save continues
    fetched,        \* detail fetches issued by the current run, per identifier
    tally,          \* per identifier, in the current run: fetches that returned
                    \* a document, fetches that returned None, files written
    loaded,         \* the DownloadState the current run started from
    all_ok,         \* every request of the current run was answered successfully
    r_prev,         \* how the previous run ended: "none", "completed", "killed"
    r_before,       \* how the run before the current one ended
    r_quiet         \* runs started since the remote data last changed, up to 2

runCfg == <<resume, max_concurrent>>
runPag == <<endpoint, offset, all_items>>
runLoop == <<phase, work, refresh_ids, r_i, r_batch, r_pending, r_results, r_j,
             r_completed>>
runDisk == <<d_ckpt, d_files, d_archive>>
runHist == <<fetched, tally, loaded, all_ok, r_prev, r_before, r_quiet>>
runVars == <<r_pc, runCfg, state, runDisk, remote_count, runPag, runLoop,
             save_to, runHist>>

(***************************************************************************)
(* Part 4.  atomic_write: state                                            *)
(***************************************************************************)
VARIABLES
    w_pc,       \* position in atomic_write
    w_path,     \* path
    w_content,  \* content
    w_fs,       \* the directory: path -> content of the file there
    w_prev      \* what the file at path held when the call started

writeVars == <<w_pc, w_path, w_content, w_fs, w_prev>>

(***************************************************************************)
(* Part 5.  DownloadState.save and DownloadState.load: state               *)
(***************************************************************************)
VARIABLES
    k_pc,     \* "start", then "saved" after save, "loaded"/"reloaded" after load
    k_state,  \* the DownloadState that save is called on
    k_file,   \* the checkpoint file
    k_out     \* what load did: the state it returned, or the exception raised

ckVars == <<k_pc, k_state, k_file, k_out>>

(***************************************************************************)
(* Part 6.  paginate: state                                                *)
(***************************************************************************)
VARIABLES
    p_pc,        \* "request" while the loop runs, then "returned" or "raised"
    p_offset,    \* offset
    p_items,     \* all_items
    p_args,      \* the caller's arguments params and limit
    p_reqs,      \* page_params of the page requests issued, in order
    p_accepted,  \* the items arrays of the pages that were accepted, in order
    p_last       \* the answer to the last page request

pageVars == <<p_pc, p_args, p_offset, p_items, p_reqs, p_accepted, p_last>>

(***************************************************************************)
(* Part 7.  get calls of one batch on one client instance: state           *)
(***************************************************************************)
VARIABLES
    t_pc,       \* per get call: "loop", "request", "sleep", "returned"
    t_attempt,  \* per get call: its loop variable attempt
    t_issued,   \* per get call: the attempts it has issued
    t_ret,      \* per get call: what it returned to gather, "pending" before
    t_j,        \* position of the zip loop that follows the gather
    t_done      \* state.phases[job.state_phase]: the calls marked done

taskVars == <<t_pc, t_attempt, t_issued, t_ret, t_j, t_done>>

(***************************************************************************)
(* Part 8.  sanitize_filename: state                                       *)
(***************************************************************************)
VARIABLES
    n_pc,    \* "call", then "returned"
    n_name,  \* the argument name, a string as the sequence of its characters
    n_out    \* the string returned

sanVars == <<n_pc, n_name, n_out>>

(***************************************************************************)
(* Part 9.  extract_names_from_response: state                             *)
(***************************************************************************)
VARIABLES
    x_pc,    \* "call", then "returned" or "raised"
    x_data,  \* the argument data, a parsed JSON object
    x_disc   \* state.discovered: agent_names and submolt_names

namesVars == <<x_pc, x_data, x_disc>>

(***************************************************************************)
(* Part 10.  archive_post_if_changed: state                                *)
(***************************************************************************)
VARIABLES
    a_pc,       \* "call", then "returned"
    a_file,     \* posts_dir / f"{post_id}.json": no file, unparseable text, or a document
    a_new,      \* the argument new_data
    a_ret,      \* the value returned
    a_archive,  \* posts_dir / "archive" / post_id: the <<file name, document>> pairs
    a_arch0     \* the archive directory when the call started

archVars == <<a_pc, a_file, a_new, a_ret, a_archive, a_arch0>>

(***************************************************************************)
(* Part 11.  paginate against a finite collection: state                   *)
(***************************************************************************)
VARIABLES
    p_coll,     \* the collection behind the endpoint, in the order it is served
    p_tick      \* the page requests sent so far, modulo 2

walkVars == <<p_coll, p_tick>>

(***************************************************************************)
(* Part 12.  run_batch: the order in which fetches settle                  *)
(***************************************************************************)
VARIABLES
    b_overtook  \* "yes" once a fetch settled while the fetch of an earlier
                \* position of its batch was still in flight, "no" before;
                \* "off" where the order of settling is not recorded

orderVars == <<b_overtook>>

(***************************************************************************)
(* Part 13.  The communities and profiles loops over named items: state    *)
(***************************************************************************)
VARIABLES
    o_phase,  \* "submolts" or "agents"
    o_work,   \* submolts_to_fetch / agents_to_fetch
    o_j,      \* position of the zip loops in the work list
    o_files,  \* submolts_dir / agents_dir: file path -> document
    o_done,   \* state.phases[phase]
    o_saved   \* phases[phase] of checkpoint.json

outVars == <<o_phase, o_work, o_j, o_files, o_done, o_saved>>

\* the parts added last
lateVars == <<archVars, walkVars, orderVars, outVars>>

\* the parts added to the library functions
moreVars == <<taskVars, sanVars, namesVars, lateVars>>

\* the library functions modelled on their own
libVars == <<writeVars, ckVars, pageVars, moreVars>>

vars == <<getVars, batchVars, runVars, libVars>>
\* what the actions of each part leave alone
notGetVars == <<batchVars, runVars, libVars>>
notBatchVars == <<getVars, runVars, libVars>>
notRunVars == <<getVars, batchVars, libVars>>
notWriteVars == <<getVars, batchVars, runVars, ckVars, pageVars, moreVars>>
notCkVars == <<getVars, batchVars, runVars, writeVars, pageVars, moreVars>>
notPageVars == <<getVars, batchVars, runVars, writeVars, ckVars, moreVars>>
notTaskVars == <<batchVars, runVars, writeVars, ckVars, pageVars, sanVars,
                 namesVars, lateVars>>
notSanVars == <<getVars, batchVars, runVars, writeVars, ckVars, pageVars,
                taskVars, namesVars, lateVars>>
notNamesVars == <<getVars, batchVars, runVars, writeVars, ckVars, pageVars,
                  taskVars, sanVars, lateVars>>
notArchVars == <<getVars, batchVars, runVars, writeVars, ckVars, pageVars,
                 taskVars, sanVars, namesVars, walkVars, orderVars, outVars>>
notWalkVars == <<getVars, batchVars, runVars, writeVars, ckVars, taskVars,
                 sanVars, namesVars, archVars, orderVars, outVars>>
notOutVars == <<getVars, batchVars, runVars, writeVars, ckVars, pageVars,
                taskVars, sanVars, namesVars, archVars, walkVars, orderVars>>
\* what a settling fetch of run_batch leaves alone
notSettleVars == <<getVars, runVars, writeVars, ckVars, pageVars, taskVars,
                   sanVars, namesVars, archVars, walkVars, outVars>>

\* Status codes the remote service may answer with.
Statuses == {200, 403, 404, 405, 500, 503}
\* Response bodies: two JSON documents and one body that is not JSON.
JsonBodies == {"d1", "d2"}
Bodies == JsonBodies \cup {"malformed"}

\* What one attempt meets: an HTTP response, or a transport-level failure
\* (connection refused, timeout, DNS failure).
Answers ==
    [kind : {"response"}, status : Statuses, body : Bodies]
        \cup {[kind |-> "transport", status |-> 0, body |-> "malformed"]}

\* response.raise_for_status(): raises HTTPStatusError unless the status is 2xx.
RaisesForStatus(status) == ~(status >= 200 /\ status < 300)

\* The try block of get: client.get raises RequestError on a transport
\* failure, raise_for_status raises HTTPStatusError, response.json() raises
\* JSONDecodeError on a body that is not JSON; "none" when nothing is raised.
TryBlock(ans) ==
    IF ans.kind = "transport" THEN "RequestError"
    ELSE IF RaisesForStatus(ans.status) THEN "HTTPStatusError"
    ELSE IF ans.body \notin JsonBodies THEN "JSONDecodeError"
    ELSE "none"

\* The except clauses of get.
HandledMutUncaughtJson == {"HTTPStatusError", "RequestError"}
Handled == {"HTTPStatusError", "RequestError", "JSONDecodeError"}

\* `status in (404, 405)`
IsNotFound(status) == status \in {404, 405}

\* except httpx.HTTPStatusError: what the handler does with the status at
\* attempt a under retry budget m.
OnStatusErrorMutRetry4xx(status, a, m) ==
    IF IsNotFound(status) THEN "not_found"
    ELSE IF status >= 400 /\ a < m THEN "retry"
    ELSE "return_none"
OnStatusErrorMutNoRetry(status, a, m) ==
    IF IsNotFound(status) THEN "not_found"
    ELSE IF status >= 500 /\ a + 1 < m THEN "retry"
    ELSE "return_none"
OnStatusError(status, a, m) ==
    IF IsNotFound(status) THEN "not_found"
    ELSE IF status >= 500 /\ a < m THEN "retry"
    ELSE "return_none"

\* except httpx.RequestError
OnRequestErrorMutNoRetry(a, m) == "return_none"
OnRequestError(a, m) == IF a < m THEN "retry" ELSE "return_none"

\* except json.JSONDecodeError
OnJSONDecodeErrorMutRetry(a, m) == IF a < m THEN "retry" ELSE "return_none"
OnJSONDecodeError(a, m) == "return_none"

\* What one pass of the loop body decides for answer ans.
Decide(ans, a, m) ==
    LET exc == TryBlock(ans) IN
    IF exc = "none" THEN "return_doc"
    ELSE IF exc \notin Handled THEN "raise"
    ELSE IF exc = "HTTPStatusError" THEN OnStatusError(ans.status, a, m)
    ELSE IF exc = "RequestError" THEN OnRequestError(a, m)
    ELSE OnJSONDecodeError(a, m)

GetInit ==
    /\ max_retries \in 0..MaxRetries
    /\ request_count = 0
    /\ not_found_count = 0
    /\ g_pc = "idle"
    /\ attempt = 0
    /\ last_error = FALSE
    /\ g_result = "absent"
    /\ g_hist = <<>>
    /\ g_sleeps = 0
    /\ g_calls = 0
    /\ g_rc0 = 0
    /\ g_nf0 = 0

\* A caller invokes get: last_error = None, the loop starts at attempt 0.
GetCall ==
    /\ g_pc = "idle"
    /\ g_calls < MaxCalls
    /\ g_calls' = g_calls + 1
    /\ g_pc' = "attempt"
    /\ attempt' = 0
    /\ last_error' = FALSE
    /\ g_hist' = <<>>
    /\ g_sleeps' = 0
    /\ g_rc0' = request_count
    /\ g_nf0' = not_found_count
    /\ UNCHANGED <<max_retries, request_count, not_found_count, g_result>>
    /\ UNCHANGED notGetVars

\* One pass of the loop body up to a return, a raise, or the backoff sleep.
GetAttempt ==
    /\ g_pc = "attempt"
    /\ \E ans \in Answers :
         LET d == Decide(ans, attempt, max_retries) IN
         /\ request_count' = request_count + 1
         /\ g_hist' = Append(g_hist, ans)
         /\ not_found_count' =
                IF d = "not_found" THEN not_found_count + 1 ELSE not_found_count
         /\ g_pc' = IF d = "retry" THEN "sleep" ELSE "returned"
         /\ g_result' =
                CASE d = "return_doc" -> ans.body
                  [] d = "raise"      -> "raised"
                  [] d = "retry"      -> g_result
                  [] OTHER            -> "absent"
    /\ UNCHANGED <<max_retries, attempt, last_error, g_sleeps, g_calls, g_rc0, g_nf0>>
    /\ UNCHANGED notGetVars

\* `await asyncio.sleep(delay); last_error = e; continue`, then the loop
\* header: the next attempt, or the fall-through `return None` after the loop.
GetSleep ==
    /\ g_pc = "sleep"
    /\ g_sleeps' = g_sleeps + 1
    /\ last_error' = TRUE
    /\ attempt' = attempt + 1
    /\ IF attempt + 1 <= max_retries
         THEN g_pc' = "attempt" /\ UNCHANGED g_result
         ELSE g_pc' = "returned" /\ g_result' = "absent"
    /\ UNCHANGED <<max_retries, request_count, not_found_count, g_hist, g_calls,
                   g_rc0, g_nf0>>
    /\ UNCHANGED notGetVars

\* The caller takes the result; the client instance stays for the next call.
GetReturn ==
    /\ g_pc = "returned"
    /\ g_result # "raised"
    /\ g_pc' = "idle"
    /\ UNCHANGED <<max_retries, request_count, not_found_count, attempt,
                   last_error, g_result, g_hist, g_sleeps, g_calls, g_rc0, g_nf0>>
    /\ UNCHANGED notGetVars

\* The client variables while no get call is modelled.
GetParked ==
    /\ max_retries = 0
    /\ request_count = 0
    /\ not_found_count = 0
    /\ g_pc = "parked"
    /\ attempt = 0
    /\ last_error = FALSE
    /\ g_result = "absent"
    /\ g_hist = <<>>
    /\ g_sleeps = 0
    /\ g_calls = 0
    /\ g_rc0 = 0
    /\ g_nf0 = 0

(***************************************************************************)
(* Part 2.  run_batch                                                      *)
(***************************************************************************)
\* Identifiers a work list is drawn from, and the phase names of the state:
\* job.state_phase is "test"; "other" is a phase run_batch is not working on.
ItemIds == {"a", "b"}
PhaseNames == {"test", "other"}
state_phase == "test"

\* What a fetch settles to, and what a file holds.
Doc(x) == [kind |-> "doc", id |-> x]
Absent == [kind |-> "absent", id |-> "-"]
Raised == [kind |-> "raised", id |-> "-"]
Unsettled == [kind |-> "unsettled", id |-> "-"]
NoFile == [kind |-> "none", id |-> "-"]

\* job.fetch_fn(client, item_id) returns a document for that item, returns
\* None, or raises; gather(return_exceptions=True) hands back the exception.
FetchOutcomes(x) == {Doc(x), Absent, Raised}

\* job.filename_fn(item_id), as the callers give it: f"{item_id}.json"
FilenameFn(x) == [stem |-> x, suffix |-> "json"]
\* path.with_suffix(".tmp")
TmpPath(p) == [p EXCEPT !.suffix = "tmp"]
FileNames == {FilenameFn(x) : x \in ItemIds} \cup {TmpPath(FilenameFn(x)) : x \in ItemIds}

\* All work lists of at most n identifiers.
SeqsUpTo(S, n) == UNION {[1..k -> S] : k \in 0..n}

Min(x, y) == IF x < y THEN x ELSE y

\* The checkpoint file's content: what state.save serialises.
NoCkpt == [exists |-> FALSE, phases |-> [p \in PhaseNames |-> {}]]
Snapshot(ph) == [exists |-> TRUE, phases |-> ph]

\* The three-way test at the head of the zip loop body:
\* isinstance(result, Exception) / result is None / otherwise save.
ClassifyMutDropAbsent(r) ==
    IF r.kind = "raised" THEN "failed"
    ELSE IF r.kind = "absent" THEN "skip"
    ELSE "save"
ClassifyMutSaveAbsent(r) ==
    IF r.kind = "raised" THEN "failed" ELSE "save"
ClassifyMutSaveRaised(r) ==
    IF r.kind = "absent" THEN "failed" ELSE "save"
Classify(r) ==
    IF r.kind = "raised" THEN "failed"
    ELSE IF r.kind = "absent" THEN "failed"
    ELSE "save"

\* The statements of the success path, in the order the code runs them:
\* atomic_write (temporary file, then rename), state.mark_done,
\* job.on_result, completed += 1.
SuccessPathMutCallbackFirst ==
    <<"write_tmp", "rename", "on_result", "mark_done", "count">>
SuccessPath == <<"write_tmp", "rename", "mark_done", "on_result", "count">>
StepAfter(step) ==
    LET n == CHOOSE k \in 1..Len(SuccessPath) : SuccessPath[k] = step
    IN IF n < Len(SuccessPath) THEN SuccessPath[n + 1] ELSE "item"

\* `completed % job.checkpoint_interval < batch_size`
PeriodicDueMutOffByOne(c, interval, bs) == c % interval < bs - 1
PeriodicDue(c, interval, bs) == c % interval < bs

\* position of the item under the zip loop in job.items (1-based)
Pos == i + j
LogStep(step) == Append(b_log, [step |-> step, pos |-> Pos, item |-> batch[j]])

BatchInit ==
    /\ items \in SeqsUpTo(ItemIds, MaxItems)
    /\ batch_size \in 1..MaxBatchSize
    /\ checkpoint_interval \in 1..MaxInterval
    /\ checkpoint_path \in BOOLEAN
    /\ on_result \in BOOLEAN
    /\ b_pc = "loop"
    /\ i = 0
    /\ batch = <<>>
    /\ pending = {}
    /\ results = <<>>
    /\ j = 0
    /\ completed = 0
    /\ failed = 0
    \* the state handed in carries earlier work of another phase
    /\ phases = [p \in PhaseNames |-> IF p = "other" THEN {"a"} ELSE {}]
    /\ files = [f \in FileNames |-> NoFile]
    /\ ckpt = NoCkpt
    /\ ckpt_tmp = NoCkpt
    /\ save_ret = "none"
    /\ collected = <<>>
    /\ b_log = <<>>
    /\ b_saves = 0
    /\ b_outcomes = [p \in 1..Len(items) |-> Unsettled]

\* The batch variables while no run_batch call is modelled.
BatchParked ==
    /\ items = <<>>
    /\ batch_size = 1
    /\ checkpoint_interval = 1
    /\ checkpoint_path = FALSE
    /\ on_result = FALSE
    /\ b_pc = "parked"
    /\ i = 0
    /\ batch = <<>>
    /\ pending = {}
    /\ results = <<>>
    /\ j = 0
    /\ completed = 0
    /\ failed = 0
    /\ phases = [p \in PhaseNames |-> {}]
    /\ files = [f \in FileNames |-> NoFile]
    /\ ckpt = NoCkpt
    /\ ckpt_tmp = NoCkpt
    /\ save_ret = "none"
    /\ collected = <<>>
    /\ b_log = <<>>
    /\ b_saves = 0
    /\ b_outcomes = <<>>

\* for i in range(0, len(job.items), batch_size): the next batch is cut and
\* its fetches are started together.
BatchStart ==
    /\ b_pc = "loop"
    /\ i < Len(items)
    /\ batch' = SubSeq(items, i + 1, Min(i + batch_size, Len(items)))
    /\ pending' = 1..Len(batch')
    /\ results' = [k \in 1..Len(batch') |-> Unsettled]
    /\ b_pc' = "gather"
    /\ UNCHANGED <<items, batch_size, checkpoint_interval, checkpoint_path,
                   on_result, i, j, completed, failed, phases, files, ckpt,
                   ckpt_tmp, save_ret, collected, b_log, b_saves, b_outcomes>>
    /\ UNCHANGED notBatchVars

\* the record of the settling order once the fetch of position k settles
Overtaking(k) ==
    CASE b_overtook = "off" -> "off"
      [] b_overtook = "yes" \/ (\E m \in pending : m < k) -> "yes"
      [] OTHER -> "no"
\* a gather that hands back the results in the order the fetches settled
FetchSettleMutCompletionOrder ==
    /\ b_pc = "gather"
    /\ \E k \in pending : \E r \in FetchOutcomes(batch[k]) :
         LET slot == Len(batch) - Cardinality(pending) + 1 IN
         /\ results' = [results EXCEPT ![slot] = r]
         /\ pending' = pending \ {k}
         /\ b_outcomes' = [b_outcomes EXCEPT ![i + k] = r]
         /\ b_overtook' = Overtaking(k)
    /\ UNCHANGED <<items, batch_size, checkpoint_interval, checkpoint_path,
                   on_result, b_pc, i, batch, j, completed, failed, phases,
                   files, ckpt, ckpt_tmp, save_ret, collected, b_log, b_saves>>
    /\ UNCHANGED notSettleVars
\* One fetch of the batch settles, in any order among those in flight;
\* gather keeps each result at the position of its awaitable.
FetchSettle ==
    /\ b_pc = "gather"
    /\ \E k \in pending : \E r \in FetchOutcomes(batch[k]) :
         /\ results' = [results EXCEPT ![k] = r]
         /\ pending' = pending \ {k}
         /\ b_outcomes' = [b_outcomes EXCEPT ![i + k] = r]
         /\ b_overtook' = Overtaking(k)
    /\ UNCHANGED <<items, batch_size, checkpoint_interval, checkpoint_path,
                   on_result, b_pc, i, batch, j, completed, failed, phases,
                   files, ckpt, ckpt_tmp, save_ret, collected, b_log, b_saves>>
    /\ UNCHANGED notSettleVars

\* (a gather that hands over as soon as it is awaited)
GatherDoneMutEarly ==
    /\ b_pc = "gather"
    /\ b_pc' = "item"
    /\ j' = 1
    /\ UNCHANGED <<items, batch_size, checkpoint_interval, checkpoint_path,
                   on_result, i, batch, pending, results, completed, failed,
                   phases, files, ckpt, ckpt_tmp, save_ret, collected, b_log,
                   b_saves, b_outcomes>>
    /\ UNCHANGED notBatchVars

\* `await asyncio.gather(...)` returns once every fetch has settled.
GatherDone ==
    /\ b_pc = "gather"
    /\ pending = {}
    /\ b_pc' = "item"
    /\ j' = 1
    /\ UNCHANGED <<items, batch_size, checkpoint_interval, checkpoint_path,
                   on_result, i, batch, pending, results, completed, failed,
                   phases, files, ckpt, ckpt_tmp, save_ret, collected, b_log,
                   b_saves, b_outcomes>>
    /\ UNCHANGED notBatchVars

\* for item_id, result in zip(batch, results): an exception or None is
\* counted as failed and the loop continues.
ItemFailed ==
    /\ b_pc = "item"
    /\ j <= Len(batch)
    /\ Classify(results[j]) # "save"
    /\ failed' = IF Classify(results[j]) = "failed" THEN failed + 1 ELSE failed
    /\ j' = j + 1
    /\ b_log' = LogStep("failed")
    /\ UNCHANGED <<items, batch_size, checkpoint_interval, checkpoint_path,
                   on_result, b_pc, i, batch, pending, results, completed,
                   phases, files, ckpt, ckpt_tmp, save_ret, collected, b_saves, b_outcomes>>
    /\ UNCHANGED notBatchVars

\* A document: the success path starts.
ItemSave ==
    /\ b_pc = "item"
    /\ j <= Len(batch)
    /\ Classify(results[j]) = "save"
    /\ b_pc' = SuccessPath[1]
    /\ UNCHANGED <<items, batch_size, checkpoint_interval, checkpoint_path,
                   on_result, i, batch, pending, results, j, completed, failed,
                   phases, files, ckpt, ckpt_tmp, save_ret, collected, b_log,
                   b_saves, b_outcomes>>
    /\ UNCHANGED notBatchVars

\* atomic_write, first half: tmp_path.write_text(content)
WriteTmp ==
    /\ b_pc = "write_tmp"
    /\ files' = [files EXCEPT ![TmpPath(FilenameFn(batch[j]))] = results[j]]
    /\ b_pc' = StepAfter("write_tmp")
    /\ UNCHANGED <<items, batch_size, checkpoint_interval, checkpoint_path,
                   on_result, i, batch, pending, results, j, completed, failed,
                   phases, ckpt, ckpt_tmp, save_ret, collected, b_log, b_saves, b_outcomes>>
    /\ UNCHANGED notBatchVars

\* tmp_path.write_text raises OSError (disk full, directory gone): nothing in
\* run_batch catches it, it leaves run_batch.
WriteRaises ==
    /\ b_pc = "write_tmp"
    /\ b_pc' = "raised"
    /\ UNCHANGED <<items, batch_size, checkpoint_interval, checkpoint_path,
                   on_result, i, batch, pending, results, j, completed, failed,
                   phases, files, ckpt, ckpt_tmp, save_ret, collected, b_log,
                   b_saves, b_outcomes>>
    /\ UNCHANGED notBatchVars

\* atomic_write, second half: tmp_path.rename(path)
Rename ==
    /\ b_pc = "rename"
    /\ LET p == FilenameFn(batch[j]) IN
       files' = [files EXCEPT ![p] = files[TmpPath(p)], ![TmpPath(p)] = NoFile]
    /\ b_log' = LogStep("write")
    /\ b_pc' = StepAfter("rename")
    /\ UNCHANGED <<items, batch_size, checkpoint_interval, checkpoint_path,
                   on_result, i, batch, pending, results, j, completed, failed,
                   phases, ckpt, ckpt_tmp, save_ret, collected, b_saves, b_outcomes>>
    /\ UNCHANGED notBatchVars

\* state.mark_done replaced by an assignment of the one-element set
MarkDoneMutReplace ==
    /\ b_pc = "mark_done"
    /\ phases' = [phases EXCEPT ![state_phase] = {batch[j]}]
    /\ b_log' = LogStep("mark_done")
    /\ b_pc' = StepAfter("mark_done")
    /\ UNCHANGED <<items, batch_size, checkpoint_interval, checkpoint_path,
                   on_result, i, batch, pending, results, j, completed, failed,
                   files, ckpt, ckpt_tmp, save_ret, collected, b_saves, b_outcomes>>
    /\ UNCHANGED notBatchVars
\* state.mark_done(job.state_phase, item_id)
MarkDone ==
    /\ b_pc = "mark_done"
    /\ phases' = [phases EXCEPT ![state_phase] = @ \cup {batch[j]}]
    /\ b_log' = LogStep("mark_done")
    /\ b_pc' = StepAfter("mark_done")
    /\ UNCHANGED <<items, batch_size, checkpoint_interval, checkpoint_path,
                   on_result, i, batch, pending, results, j, completed, failed,
                   files, ckpt, ckpt_tmp, save_ret, collected, b_saves, b_outcomes>>
    /\ UNCHANGED notBatchVars

\* if job.on_result: job.on_result(item_id, result)
OnResult ==
    /\ b_pc = "on_result"
    /\ IF on_result
         THEN /\ collected' = Append(collected, <<batch[j], results[j]>>)
              /\ b_log' = LogStep("on_result")
         ELSE UNCHANGED <<collected, b_log>>
    /\ b_pc' = StepAfter("on_result")
    /\ UNCHANGED <<items, batch_size, checkpoint_interval, checkpoint_path,
                   on_result, i, batch, pending, results, j, completed, failed,
                   phases, files, ckpt, ckpt_tmp, save_ret, b_saves, b_outcomes>>
    /\ UNCHANGED notBatchVars

\* The callback raises: nothing in run_batch catches it.
OnResultRaises ==
    /\ b_pc = "on_result"
    /\ on_result
    /\ b_pc' = "raised"
    /\ UNCHANGED <<items, batch_size, checkpoint_interval, checkpoint_path,
                   on_result, i, batch, pending, results, j, completed, failed,
                   phases, files, ckpt, ckpt_tmp, save_ret, collected, b_log,
                   b_saves, b_outcomes>>
    /\ UNCHANGED notBatchVars

\* completed += 1, and the zip loop moves on
Count ==
    /\ b_pc = "count"
    /\ completed' = completed + 1
    /\ b_log' = LogStep("count")
    /\ j' = j + 1
    /\ b_pc' = StepAfter("count")
    /\ UNCHANGED <<items, batch_size, checkpoint_interval, checkpoint_path,
                   on_result, i, batch, pending, results, failed, phases, files,
                   ckpt, ckpt_tmp, save_ret, collected, b_saves, b_outcomes>>
    /\ UNCHANGED notBatchVars

\* After the zip loop: the periodic checkpoint test.
Periodic ==
    /\ b_pc = "item"
    /\ j > Len(batch)
    /\ IF checkpoint_path /\ PeriodicDue(completed, checkpoint_interval, batch_size)
         THEN b_pc' = "save_tmp" /\ save_ret' = "delay"
         ELSE b_pc' = "delay" /\ UNCHANGED save_ret
    /\ UNCHANGED <<items, batch_size, checkpoint_interval, checkpoint_path,
                   on_result, i, batch, pending, results, j, completed, failed,
                   phases, files, ckpt, ckpt_tmp, collected, b_log, b_saves, b_outcomes>>
    /\ UNCHANGED notBatchVars

\* The inter-batch delay, and the loop header's next i.
Delay ==
    /\ b_pc = "delay"
    /\ i' = i + batch_size
    /\ b_pc' = "loop"
    /\ UNCHANGED <<items, batch_size, checkpoint_interval, checkpoint_path,
                   on_result, batch, pending, results, j, completed, failed,
                   phases, files, ckpt, ckpt_tmp, save_ret, collected, b_log,
                   b_saves, b_outcomes>>
    /\ UNCHANGED notBatchVars

\* (a final save only when something was completed)
FinalMutSkipEmpty ==
    /\ b_pc = "loop"
    /\ i >= Len(items)
    /\ IF checkpoint_path /\ completed > 0
         THEN b_pc' = "save_tmp" /\ save_ret' = "done"
         ELSE b_pc' = "done" /\ UNCHANGED save_ret
    /\ UNCHANGED <<items, batch_size, checkpoint_interval, checkpoint_path,
                   on_result, i, batch, pending, results, j, completed, failed,
                   phases, files, ckpt, ckpt_tmp, collected, b_log, b_saves, b_outcomes>>
    /\ UNCHANGED notBatchVars

\* The loop is exhausted: the final checkpoint, if a path is given, and the
\* return of (completed, failed).
Final ==
    /\ b_pc = "loop"
    /\ i >= Len(items)
    /\ IF checkpoint_path
         THEN b_pc' = "save_tmp" /\ save_ret' = "done"
         ELSE b_pc' = "done" /\ UNCHANGED save_ret
    /\ UNCHANGED <<items, batch_size, checkpoint_interval, checkpoint_path,
                   on_result, i, batch, pending, results, j, completed, failed,
                   phases, files, ckpt, ckpt_tmp, collected, b_log, b_saves, b_outcomes>>
    /\ UNCHANGED notBatchVars

\* state.save -> atomic_write, first half: the temporary file gets the state.
SaveTmp ==
    /\ b_pc = "save_tmp"
    /\ ckpt_tmp' = Snapshot(phases)
    /\ b_pc' = "save_rename"
    /\ UNCHANGED <<items, batch_size, checkpoint_interval, checkpoint_path,
                   on_result, i, batch, pending, results, j, completed, failed,
                   phases, files, ckpt, save_ret, collected, b_log, b_saves, b_outcomes>>
    /\ UNCHANGED notBatchVars

\* state.save -> atomic_write, second half: rename over the checkpoint.
SaveRename ==
    /\ b_pc = "save_rename"
    /\ ckpt' = ckpt_tmp
    /\ ckpt_tmp' = NoCkpt
    /\ b_saves' = b_saves + 1
    /\ b_pc' = save_ret
    /\ UNCHANGED <<items, batch_size, checkpoint_interval, checkpoint_path,
                   on_result, i, batch, pending, results, j, completed, failed,
                   phases, files, save_ret, collected, b_log, b_outcomes>>
    /\ UNCHANGED notBatchVars

(***************************************************************************)
(* Part 3.  download_moltbook                                              *)
(***************************************************************************)
\* Identifiers are sequences of characters, so that sanitize_filename acts
\* on them as it does on strings.
P1 == <<"p", "1">>
A1 == <<"a", "1">>
A2 == <<"a", "2">>
S1 == <<"s", "1">>
PostIds == {P1}
AgentNames == {A1, A2}
SubmoltNames == {S1}
AllIds == PostIds \cup AgentNames \cup SubmoltNames

\* The remote service.  The feed holds the post P1, written by A1 in the
\* community S1, which the community listing shows; every comment on P1 is
\* written by A2.
Feed == <<P1>>
ListedSubmolts == <<S1>>
PostAuthor(p) == A1
PostSubmolt(p) == S1
Commenters(p, c) == IF c > 0 THEN {A2} ELSE {}
RemoteCount(p) == remote_count

\* Documents and file contents.
RDoc(x, c) == [kind |-> "doc", id |-> x, count |-> c]
RAbsent == [kind |-> "absent", id |-> <<>>, count |-> 0]
RUnsettled == [kind |-> "unsettled", id |-> <<>>, count |-> 0]
RNoFile == [kind |-> "none", id |-> <<>>, count |-> 0]
RPartial == [kind |-> "partial", id |-> <<>>, count |-> 0]

\* The document the detail endpoint of a phase returns for x right now.
RemoteDoc(ph, x) == RDoc(x, IF ph = "posts" THEN RemoteCount(x) ELSE 0)

\* re.sub(r'[<>:"/\\|?*]', '_', name)
SpecialChars == {"<", ">", ":", "\"", "/", "\\", "|", "?", "*"}
sanitize_filenameMutDots(name) ==
    [k \in 1..Len(name) |->
        IF name[k] \in SpecialChars \cup {"."} THEN "_" ELSE name[k]]
sanitize_filename(name) ==
    [k \in 1..Len(name) |-> IF name[k] \in SpecialChars THEN "_" ELSE name[k]]

\* posts_dir / f"{post_id}.json", submolts_dir / f"{safe_name}.json",
\* agents_dir / f"{safe_name}.json"
ItemPath(ph, x) == IF ph = "posts" THEN <<ph, x>> ELSE <<ph, sanitize_filename(x)>>
FilePaths ==
    {ItemPath("posts", x) : x \in PostIds}
        \cup {ItemPath("submolts", x) : x \in SubmoltNames}
        \cup {ItemPath("agents", x) : x \in AgentNames}

\* DownloadState(): nothing done, nothing discovered, no tracked counts.
EmptyCounts == [x \in {} |-> 0]
EmptyState ==
    [posts |-> {}, submolts |-> {}, agents |-> {},
     agent_names |-> {}, submolt_names |-> {},
     post_comment_counts |-> EmptyCounts]

\* dict assignment counts[x] = c
SetCount(counts, x, c) ==
    [y \in DOMAIN counts \cup {x} |-> IF y = x THEN c ELSE counts[y]]

\* DownloadState.load(checkpoint_path) if resume else DownloadState()
LoadState(res) == IF res /\ d_ckpt.exists THEN d_ckpt.state ELSE EmptyState

\* migrate_comment_counts: backfill the counts from the parseable post files.
MigrateCounts ==
    LET have == {x \in PostIds : d_files[ItemPath("posts", x)].kind = "doc"}
    IN [x \in have |-> d_files[ItemPath("posts", x)].count]

\* `state.get_done("posts") and not state.extra.get("post_comment_counts")`
NeedsMigration(st) == st.posts # {} /\ DOMAIN st.post_comment_counts = {}

\* The orders in which a list comprehension over a set may yield it.
Orderings(S) ==
    {f \in [1..Cardinality(S) -> S] : \A x \in S : \E k \in DOMAIN f : f[k] = x}

Reverse(q) == [k \in 1..Len(q) |-> q[Len(q) + 1 - k]]

\* identify_posts_needing_refresh
IsNewPost(e, st) == e.id \notin st.posts
NeedsRefreshMutAlways(e, st) == e.id \in st.posts
NeedsRefreshMutGreaterEq(e, st) ==
    /\ e.id \in st.posts
    /\ \/ e.id \notin DOMAIN st.post_comment_counts
       \/ e.comment_count >= st.post_comment_counts[e.id]
NeedsRefresh(e, st) ==
    /\ e.id \in st.posts
    /\ \/ e.id \notin DOMAIN st.post_comment_counts
       \/ e.comment_count > st.post_comment_counts[e.id]
NewPosts(all_posts, st) == SelectSeq(all_posts, LAMBDA e : IsNewPost(e, st))
PostsToRefresh(all_posts, st) == SelectSeq(all_posts, LAMBDA e : NeedsRefresh(e, st))

\* The entries a collection endpoint lists, as the service holds them now.
Listing(ep) ==
    IF ep = "/posts"
      THEN [k \in 1..Len(Feed) |->
               [id |-> Feed[k], comment_count |-> RemoteCount(Feed[k])]]
      ELSE [k \in 1..Len(ListedSubmolts) |->
               [id |-> ListedSubmolts[k], comment_count |-> 0]]

\* Nothing fetched and nothing written yet in this run.
NoTally == [x \in AllIds |-> [docs |-> 0, absents |-> 0, writes |-> 0]]

\* The values the variables of a run take while no run is active.
NoRun ==
    /\ resume = FALSE
    /\ max_concurrent = MaxConcurrent
    /\ state = EmptyState
    /\ endpoint = "/posts"
    /\ offset = 0
    /\ all_items = <<>>
    /\ phase = "posts"
    /\ work = <<>>
    /\ refresh_ids = {}
    /\ r_i = 0
    /\ r_batch = <<>>
    /\ r_pending = {}
    /\ r_results = <<>>
    /\ r_j = 0
    /\ r_completed = 0
    /\ save_to = "none"
    /\ fetched = [x \in AllIds |-> 0]
    /\ tally = NoTally
    /\ loaded = EmptyState
    /\ all_ok = TRUE

\* An empty data directory, the remote post P1 without comments.
RunInit ==
    /\ r_pc = "idle"
    /\ NoRun
    /\ d_ckpt = [exists |-> FALSE, state |-> EmptyState]
    /\ d_files = [f \in FilePaths |-> RNoFile]
    /\ d_archive = {}
    /\ remote_count = 0
    /\ r_prev = "none"
    /\ r_before = "none"
    /\ r_quiet = 2

\* The run variables while no run of download_moltbook is modelled.
RunParked ==
    /\ r_pc = "parked"
    /\ NoRun
    /\ d_ckpt = [exists |-> FALSE, state |-> EmptyState]
    /\ d_files = [f \in FilePaths |-> RNoFile]
    /\ d_archive = {}
    /\ remote_count = 0
    /\ r_prev = "none"
    /\ r_before = "none"
    /\ r_quiet = 2

\* Entering paginate(client, ep, ...): all_items = [], offset = 0.
EnterPaginate(ep) ==
    /\ r_pc' = "paginate"
    /\ endpoint' = ep
    /\ offset' = 0
    /\ all_items' = <<>>

\* Entering one of the three phase loops with its work list; the locals of
\* the paginate call that came before are gone.
EnterLoop(ph, w, refresh) ==
    /\ r_pc' = "loop"
    /\ phase' = ph
    /\ work' = w
    /\ refresh_ids' = refresh
    /\ r_i' = 0
    /\ r_completed' = 0
    /\ r_batch' = <<>>
    /\ r_pending' = {}
    /\ r_results' = <<>>
    /\ r_j' = 0
    /\ endpoint' = "/posts"
    /\ offset' = 0
    /\ all_items' = <<>>

\* download_moltbook is called: directories, checkpoint load, the backfill
\* of comment counts (saved at once when it runs), then the feed walk.
RunStart ==
    /\ r_pc = "idle"
    /\ \E res \in BOOLEAN :
         LET st0 == LoadState(res)
             st1 == IF NeedsMigration(st0)
                      THEN [st0 EXCEPT !.post_comment_counts = MigrateCounts]
                      ELSE st0
         IN /\ resume' = res
            /\ max_concurrent' = MaxConcurrent
            /\ state' = st1
            /\ loaded' = st0
            /\ d_ckpt' = IF NeedsMigration(st0)
                           THEN [exists |-> TRUE, state |-> st1] ELSE d_ckpt
    /\ EnterPaginate("/posts")
    /\ fetched' = [x \in AllIds |-> 0]
    /\ tally' = NoTally
    /\ all_ok' = TRUE
    /\ r_before' = r_prev
    /\ r_quiet' = Min(r_quiet + 1, 2)
    /\ UNCHANGED <<d_files, d_archive, remote_count, runLoop, save_to, r_prev>>
    /\ UNCHANGED notRunVars

\* What is left when the process goes away: the disk; the memory is gone.
ProcessGone(how) ==
    /\ r_pc' = "idle"
    /\ resume' = FALSE
    /\ max_concurrent' = MaxConcurrent
    /\ state' = EmptyState
    /\ endpoint' = "/posts"
    /\ offset' = 0
    /\ all_items' = <<>>
    /\ phase' = "posts"
    /\ work' = <<>>
    /\ refresh_ids' = {}
    /\ r_i' = 0
    /\ r_batch' = <<>>
    /\ r_pending' = {}
    /\ r_results' = <<>>
    /\ r_j' = 0
    /\ r_completed' = 0
    /\ save_to' = "none"
    /\ fetched' = [x \in AllIds |-> 0]
    /\ tally' = NoTally
    /\ loaded' = EmptyState
    /\ all_ok' = TRUE
    /\ r_prev' = how
    /\ r_before' = "none"
    /\ UNCHANGED <<runDisk, remote_count, r_quiet>>

\* The process is killed, at any point of the run.
Kill ==
    /\ r_pc \notin {"idle", "parked"}
    /\ ProcessGone("killed")
    /\ UNCHANGED notRunVars

\* The run reaches the end of download_moltbook.
RunFinish ==
    /\ r_pc = "finish"
    /\ ProcessGone("completed")
    /\ UNCHANGED notRunVars

\* The remote service: somebody comments on post P1.
RemoteComment ==
    /\ r_pc # "parked"
    /\ remote_count < MaxCount
    /\ remote_count' = remote_count + 1
    /\ r_quiet' = 0
    /\ UNCHANGED <<r_pc, runCfg, state, runDisk, runPag, runLoop, save_to,
                   fetched, tally, loaded, all_ok, r_prev, r_before>>
    /\ UNCHANGED notRunVars

\* Where download_moltbook continues after paginate returns.
AfterPaginate == IF endpoint = "/posts" THEN "feed_done" ELSE "sub_done"

\* paginate: the page request is answered absent, or with success false:
\* the walk stops with what it has.
PaginateStop ==
    /\ r_pc = "paginate"
    /\ all_ok' = FALSE
    /\ r_pc' = AfterPaginate
    /\ UNCHANGED <<runCfg, state, runDisk, remote_count, runPag, runLoop,
                   save_to, fetched, tally, loaded, r_prev, r_before, r_quiet>>
    /\ UNCHANGED notRunVars

\* paginate: the service answers the page at `offset` (one entry a page,
\* has_more while entries remain, next_offset after the page): an empty page
\* stops the walk, else the entries are appended, and the walk goes on at
\* next_offset while has_more.
PaginatePage ==
    /\ r_pc = "paginate"
    /\ LET all == Listing(endpoint)
           page == IF offset < Len(all) THEN <<all[offset + 1]>> ELSE <<>>
           has_more == offset + Len(page) < Len(all)
           next_offset == offset + Len(page)
       IN IF page = <<>>
            THEN r_pc' = AfterPaginate /\ UNCHANGED <<all_items, offset>>
            ELSE /\ all_items' = all_items \o page
                 /\ IF has_more
                      THEN r_pc' = "paginate" /\ offset' = next_offset
                      ELSE r_pc' = AfterPaginate /\ UNCHANGED offset
    /\ UNCHANGED <<runCfg, state, runDisk, remote_count, endpoint, runLoop,
                   save_to, runHist>>
    /\ UNCHANGED notRunVars

\* After the feed walk: names from the feed entries, oldest first, the new /
\* refresh split, and the posts loop (skipped when there is nothing to fetch).
FeedDone ==
    /\ r_pc = "feed_done"
    /\ LET st == [state EXCEPT
                    !.agent_names = @ \cup {PostAuthor(all_items[k].id) : k \in DOMAIN all_items},
                    !.submolt_names = @ \cup {PostSubmolt(all_items[k].id) : k \in DOMAIN all_items}]
           all_posts == Reverse(all_items)
           new_posts == NewPosts(all_posts, st)
           posts_to_refresh == PostsToRefresh(all_posts, st)
           to_fetch == new_posts \o posts_to_refresh
       IN /\ state' = st
          /\ IF to_fetch # <<>>
               THEN EnterLoop("posts", [k \in DOMAIN to_fetch |-> to_fetch[k].id],
                              {posts_to_refresh[k].id : k \in DOMAIN posts_to_refresh})
               ELSE /\ EnterPaginate("/submolts")
                    /\ UNCHANGED runLoop
    /\ UNCHANGED <<runCfg, runDisk, remote_count, save_to, runHist>>
    /\ UNCHANGED notRunVars

\* After the community listing: its names join the discovered ones, and
\* the communities loop gets those not yet done.
SubDone ==
    /\ r_pc = "sub_done"
    /\ LET st == [state EXCEPT
                    !.submolt_names = @ \cup {all_items[k].id : k \in DOMAIN all_items}]
       IN /\ state' = st
          /\ \E w \in Orderings(st.submolt_names \ st.submolts) :
               IF w # <<>>
                 THEN EnterLoop("submolts", w, {})
                 ELSE /\ r_pc' = "agents_prep"
                      /\ endpoint' = "/posts"
                      /\ offset' = 0
                      /\ all_items' = <<>>
                      /\ UNCHANGED runLoop
    /\ UNCHANGED <<runCfg, runDisk, remote_count, save_to, runHist>>
    /\ UNCHANGED notRunVars

\* the profiles loop gets only the names the loaded checkpoint held
AgentsPrepMutLoadedNames ==
    /\ r_pc = "agents_prep"
    /\ \E w \in Orderings(loaded.agent_names \ state.agents) :
         IF w # <<>>
           THEN EnterLoop("agents", w, {})
           ELSE r_pc' = "finish" /\ UNCHANGED <<runLoop, runPag>>
    /\ UNCHANGED <<runCfg, state, runDisk, remote_count, save_to, runHist>>
    /\ UNCHANGED notRunVars
\* Phase 3 starts: the profiles loop gets the discovered names not yet done.
AgentsPrep ==
    /\ r_pc = "agents_prep"
    /\ \E w \in Orderings(state.agent_names \ state.agents) :
         IF w # <<>>
           THEN EnterLoop("agents", w, {})
           ELSE r_pc' = "finish" /\ UNCHANGED <<runLoop, runPag>>
    /\ UNCHANGED <<runCfg, state, runDisk, remote_count, save_to, runHist>>
    /\ UNCHANGED notRunVars

\* The locals of a phase loop once the loop is left.
LeaveLoop ==
    /\ phase' = "posts"
    /\ work' = <<>>
    /\ refresh_ids' = {}
    /\ r_i' = 0
    /\ r_completed' = 0
    /\ r_batch' = <<>>
    /\ r_pending' = {}
    /\ r_results' = <<>>
    /\ r_j' = 0

\* for i in range(0, len(work), batch_size): the fetches of the next batch
\* are started.
LoopBatch ==
    /\ r_pc = "loop"
    /\ r_i < Len(work)
    /\ LET b == SubSeq(work, r_i + 1, Min(r_i + max_concurrent, Len(work)))
       IN /\ r_batch' = b
          /\ r_pending' = DOMAIN b
          /\ r_results' = [k \in DOMAIN b |-> RUnsettled]
          /\ fetched' = [x \in AllIds |->
                            fetched[x] + Cardinality({k \in DOMAIN b : b[k] = x})]
    /\ r_pc' = "gather"
    /\ r_j' = 1
    /\ UNCHANGED <<runCfg, state, runDisk, remote_count, runPag, phase, work,
                   refresh_ids, r_i, r_completed, save_to, tally, loaded,
                   all_ok, r_prev, r_before, r_quiet>>
    /\ UNCHANGED notRunVars

\* One fetch of the batch returns the document the service holds.
FetchOk ==
    /\ r_pc = "gather"
    /\ \E k \in r_pending :
         /\ r_results' = [r_results EXCEPT ![k] = RemoteDoc(phase, r_batch[k])]
         /\ r_pending' = r_pending \ {k}
         /\ tally' = [tally EXCEPT ![r_batch[k]].docs = @ + 1]
    /\ UNCHANGED <<r_pc, runCfg, state, runDisk, remote_count, runPag, phase,
                   work, refresh_ids, r_i, r_batch, r_j, r_completed, save_to,
                   fetched, loaded, all_ok, r_prev, r_before, r_quiet>>
    /\ UNCHANGED notRunVars

\* One fetch of the batch returns None: 404, retries exhausted, success false.
FetchAbsent ==
    /\ r_pc = "gather"
    /\ \E k \in r_pending :
         /\ r_results' = [r_results EXCEPT ![k] = RAbsent]
         /\ r_pending' = r_pending \ {k}
         /\ tally' = [tally EXCEPT ![r_batch[k]].absents = @ + 1]
    /\ all_ok' = FALSE
    /\ UNCHANGED <<r_pc, runCfg, state, runDisk, remote_count, runPag, phase,
                   work, refresh_ids, r_i, r_batch, r_j, r_completed, save_to,
                   fetched, loaded, r_prev, r_before, r_quiet>>
    /\ UNCHANGED notRunVars

\* gather has returned once every fetch of the batch has settled; the zip
\* loop then stands at position r_j of the batch.
InZip == r_pc = "gather" /\ r_pending = {}

\* a result of None is marked done all the same
ItemAbsentMutMarkDone ==
    /\ InZip
    /\ r_j <= Len(r_batch)
    /\ r_results[r_j].kind # "doc"
    /\ r_j' = r_j + 1
    /\ state' = [state EXCEPT ![phase] = @ \cup {r_batch[r_j]}]
    /\ UNCHANGED <<r_pc, runCfg, runDisk, remote_count, runPag, phase,
                   work, refresh_ids, r_i, r_batch, r_pending, r_results,
                   r_completed, save_to, runHist>>
    /\ UNCHANGED notRunVars
\* `if result is None: failed += 1; continue`
ItemAbsent ==
    /\ InZip
    /\ r_j <= Len(r_batch)
    /\ r_results[r_j].kind # "doc"
    /\ r_j' = r_j + 1
    /\ UNCHANGED <<r_pc, runCfg, state, runDisk, remote_count, runPag, phase,
                   work, refresh_ids, r_i, r_batch, r_pending, r_results,
                   r_completed, save_to, runHist>>
    /\ UNCHANGED notRunVars

\* archive_post_if_changed: a parseable previous file whose number of
\* comments differs from the new document's is copied to the archive.
ArchiveDue(x, new) ==
    LET old == d_files[ItemPath("posts", x)]
    IN old.kind = "doc" /\ old.count # new.count

\* A document: in the posts loop a refreshed post is archived if it changed;
\* then the file write begins.
ItemDoc ==
    /\ InZip
    /\ r_j <= Len(r_batch)
    /\ r_results[r_j].kind = "doc"
    /\ LET x == r_batch[r_j]
       IN d_archive' =
              IF phase = "posts" /\ x \in refresh_ids /\ ArchiveDue(x, r_results[r_j])
                THEN d_archive \cup {d_files[ItemPath("posts", x)]}
                ELSE d_archive
    /\ r_pc' = "write"
    /\ UNCHANGED <<runCfg, state, d_ckpt, d_files, remote_count, runPag, runLoop,
                   save_to, runHist>>
    /\ UNCHANGED notRunVars

\* filepath.write_text(...): the file is opened for writing, which empties it.
WriteOpen ==
    /\ r_pc = "write"
    /\ d_files' = [d_files EXCEPT ![ItemPath(phase, r_batch[r_j])] = RPartial]
    /\ r_pc' = "written"
    /\ UNCHANGED <<runCfg, state, d_ckpt, d_archive, remote_count, runPag,
                   runLoop, save_to, runHist>>
    /\ UNCHANGED notRunVars

\* extract_names_from_response on the document of a phase: the names it adds.
DocAgentNames(ph, doc) ==
    IF ph = "posts" THEN {PostAuthor(doc.id)} \cup Commenters(doc.id, doc.count) ELSE {}
DocSubmoltNames(ph, doc) ==
    IF ph = "posts" THEN {PostSubmolt(doc.id)}
    ELSE IF ph = "submolts" THEN {doc.id}
    ELSE {}

\* The in-memory tail of the success path: names (posts and communities
\* loops), state.mark_done, the tracked comment count (posts loop),
\* completed += 1.
MarkedMutForgetNames(ph, st, doc) ==
    LET x == doc.id IN
    CASE ph = "posts" ->
           [st EXCEPT !.posts = @ \cup {x},
                      !.post_comment_counts = SetCount(@, x, doc.count)]
      [] ph = "submolts" -> [st EXCEPT !.submolts = @ \cup {x}]
      [] OTHER -> [st EXCEPT !.agents = @ \cup {x}]
Marked(ph, st, doc) ==
    LET x == doc.id IN
    CASE ph = "posts" ->
           [st EXCEPT !.agent_names = @ \cup DocAgentNames(ph, doc),
                      !.submolt_names = @ \cup DocSubmoltNames(ph, doc),
                      !.posts = @ \cup {x},
                      !.post_comment_counts = SetCount(@, x, doc.count)]
      [] ph = "submolts" ->
           [st EXCEPT !.agent_names = @ \cup DocAgentNames(ph, doc),
                      !.submolt_names = @ \cup DocSubmoltNames(ph, doc),
                      !.submolts = @ \cup {x}]
      [] OTHER -> [st EXCEPT !.agents = @ \cup {x}]

\* filepath.write_text(...) completes: the whole document is in the file;
\* then the in-memory tail of the success path, and the zip loop goes on.
WriteClose ==
    /\ r_pc = "written"
    /\ d_files' = [d_files EXCEPT ![ItemPath(phase, r_batch[r_j])] = r_results[r_j]]
    /\ state' = Marked(phase, state, r_results[r_j])
    /\ r_completed' = r_completed + 1
    /\ r_j' = r_j + 1
    /\ r_pc' = "gather"
    /\ tally' = [tally EXCEPT ![r_batch[r_j]].writes = @ + 1]
    /\ UNCHANGED <<runCfg, d_ckpt, d_archive, remote_count, runPag, phase, work,
                   refresh_ids, r_i, r_batch, r_pending, r_results, save_to,
                   fetched, loaded, all_ok, r_prev, r_before, r_quiet>>
    /\ UNCHANGED notRunVars

\* `if completed % 100 == 0: state.save(checkpoint_path)`, which the posts
\* loop and the profiles loop have and the communities loop has not.
CheckpointEvery == 100
HasPeriodicSave(ph) == ph \in {"posts", "agents"}

\* After the zip loop of a batch: the periodic checkpoint test, then
\* await asyncio.sleep(config.batch_delay) and the loop header's next i.
\* The locals of the finished iteration are gone.
BatchEnd ==
    /\ InZip
    /\ r_j > Len(r_batch)
    /\ IF HasPeriodicSave(phase) /\ r_completed % CheckpointEvery = 0
         THEN r_pc' = "save_tmp" /\ save_to' = "loop"
         ELSE r_pc' = "loop" /\ UNCHANGED save_to
    /\ r_i' = r_i + max_concurrent
    /\ r_batch' = <<>>
    /\ r_results' = <<>>
    /\ r_j' = 0
    /\ UNCHANGED <<runCfg, state, runDisk, remote_count, runPag, phase, work,
                   refresh_ids, r_pending, r_completed, runHist>>
    /\ UNCHANGED notRunVars

\* The loop is exhausted: state.save(checkpoint_path) at the end of the phase.
LoopEnd ==
    /\ r_pc = "loop"
    /\ r_i >= Len(work)
    /\ r_pc' = "save_tmp"
    /\ save_to' = "phase_end"
    /\ UNCHANGED <<runCfg, state, runDisk, remote_count, runPag, runLoop, runHist>>
    /\ UNCHANGED notRunVars

\* state.save -> atomic_write: the temporary file is written; checkpoint.json
\* is untouched.
RunSaveTmp ==
    /\ r_pc = "save_tmp"
    /\ r_pc' = "save_rename"
    /\ UNCHANGED <<runCfg, state, runDisk, remote_count, runPag, runLoop,
                   save_to, runHist>>
    /\ UNCHANGED notRunVars

\* After the phase's save: the community listing, the profiles phase, or
\* the end of the run.
PhaseEnd ==
    /\ CASE phase = "posts" -> EnterPaginate("/submolts")
         [] phase = "submolts" -> r_pc' = "agents_prep" /\ UNCHANGED runPag
         [] OTHER -> r_pc' = "finish" /\ UNCHANGED runPag
    /\ LeaveLoop

\* state.save -> atomic_write: the rename puts the state in checkpoint.json;
\* the run continues with the next batch or with what follows the phase.
RunSaveRename ==
    /\ r_pc = "save_rename"
    /\ d_ckpt' = [exists |-> TRUE, state |-> state]
    /\ save_to' = "none"
    /\ IF save_to = "phase_end"
         THEN PhaseEnd
         ELSE r_pc' = save_to /\ UNCHANGED <<runPag, runLoop>>
    /\ UNCHANGED <<runCfg, state, d_files, d_archive, remote_count, runHist>>
    /\ UNCHANGED notRunVars

\* The steps of a run, from its start to its end.
RunStep ==
    \/ PaginateStop \/ PaginatePage \/ FeedDone \/ SubDone \/ AgentsPrep
    \/ LoopBatch \/ FetchOk \/ FetchAbsent
    \/ ItemAbsent \/ ItemDoc \/ WriteOpen \/ WriteClose
    \/ BatchEnd \/ LoopEnd \/ RunSaveTmp \/ RunSaveRename

NextRun == RunStart \/ RunStep \/ RunFinish \/ Kill \/ RemoteComment

\* The posts phase on its own, from the return of paginate("/posts") on, for
\* every feed the service may have answered with: the listing is walked by
\* offset while posts are added to it, so a post may be listed twice, and
\* an entry's comment_count is what the feed said when its page was served.
MaxFeedLen == 2
FeedEntries == [id : PostIds, comment_count : 0..MaxCount]
FeedLists == SeqsUpTo(FeedEntries, MaxFeedLen)
\* What a run may have loaded about post P1, and the file it may find:
\* nothing done (the file left by a killed run, if any); done with its
\* count and the document, or a file cut short by a kill; done without a
\* count (an old-layout checkpoint whose backfill could not parse the file).
PostDone(c) ==
    [EmptyState EXCEPT !.posts = {P1},
                       !.agent_names = {PostAuthor(P1)},
                       !.submolt_names = {PostSubmolt(P1)},
                       !.post_comment_counts = c]
LoadedAndFile ==
    {<<EmptyState, f>> : f \in {RNoFile, RPartial} \cup {RDoc(P1, c) : c \in 0..MaxCount}}
    \cup UNION {{<<PostDone(SetCount(EmptyCounts, P1, c)), f>> :
                   f \in {RDoc(P1, c), RPartial}} : c \in 0..MaxCount}
    \cup {<<PostDone(EmptyCounts), f>> : f \in {RNoFile, RPartial}}
FeedInit ==
    /\ r_pc = "feed_done"
    /\ resume = TRUE
    /\ max_concurrent \in {MaxConcurrent, MaxConcurrent + 1}
    /\ \E lf \in LoadedAndFile :
         /\ state = lf[1]
         /\ loaded = lf[1]
         /\ d_ckpt = [exists |-> lf[1] # EmptyState, state |-> lf[1]]
         /\ d_files = [f \in FilePaths |->
                          IF f = ItemPath("posts", P1) THEN lf[2] ELSE RNoFile]
    /\ d_archive = {}
    /\ remote_count \in 0..MaxCount
    /\ endpoint = "/posts"
    /\ offset = 0
    /\ all_items \in FeedLists
    /\ phase = "posts"
    /\ work = <<>>
    /\ refresh_ids = {}
    /\ r_i = 0
    /\ r_batch = <<>>
    /\ r_pending = {}
    /\ r_results = <<>>
    /\ r_j = 0
    /\ r_completed = 0
    /\ save_to = "none"
    /\ fetched = [x \in AllIds |-> 0]
    /\ tally = NoTally
    /\ all_ok = TRUE
    /\ r_prev = "completed"
    /\ r_before = "completed"
    /\ r_quiet = 2

\* The steps of the posts phase; it ends where the community listing starts.
FeedStep ==
    \/ FeedDone \/ LoopBatch \/ FetchOk \/ FetchAbsent
    \/ ItemAbsent \/ ItemDoc \/ WriteOpen \/ WriteClose
    \/ BatchEnd \/ LoopEnd \/ RunSaveTmp \/ RunSaveRename
NextFeed == FeedStep \/ RemoteComment
(***************************************************************************)
(* Part 4.  atomic_write                                                   *)
(***************************************************************************)
\* The paths of one directory: a stem and a suffix, "" for a name without one.
WriteStems == {"x", "y"}
WriteSuffixes == {"json", "", "tmp"}
WritePaths == [stem : WriteStems, suffix : WriteSuffixes]
\* What a file holds: one of two texts, the beginning of a text that is
\* being written, or nothing when there is no such file.
Contents == {"c1", "c2"}
PartialText == "partial"
NoText == "none"

WriteInit ==
    /\ w_pc = "call"
    /\ w_path \in WritePaths
    /\ w_content \in Contents
    /\ w_fs \in [WritePaths -> {NoText, "c1"}]
    /\ w_prev = w_fs[w_path]

\* The variables of atomic_write while no call is modelled.
WriteParked ==
    /\ w_pc = "parked"
    /\ w_path = [stem |-> "x", suffix |-> "json"]
    /\ w_content = "c1"
    /\ w_fs = [f \in WritePaths |-> NoText]
    /\ w_prev = NoText

\* tmp_path.write_text(content), opening: the file at tmp_path = 
\* path.with_suffix(".tmp") is created or truncated and the text starts to
\* arrive in it.
OpenTmp ==
    /\ w_pc = "call"
    /\ w_fs' = [w_fs EXCEPT ![TmpPath(w_path)] = PartialText]
    /\ w_pc' = "writing"
    /\ UNCHANGED <<w_path, w_content, w_prev>>
    /\ UNCHANGED notWriteVars

\* tmp_path.write_text(content), closing: the whole text is in the file.
CloseTmp ==
    /\ w_pc = "writing"
    /\ w_fs' = [w_fs EXCEPT ![TmpPath(w_path)] = w_content]
    /\ w_pc' = "written"
    /\ UNCHANGED <<w_path, w_content, w_prev>>
    /\ UNCHANGED notWriteVars

\* tmp_path.rename(path): the name path now refers to the temporary file and
\* the name tmp_path is gone; renaming a file to its own name changes nothing.
RenameTmp ==
    /\ w_pc = "written"
    /\ w_fs' = IF TmpPath(w_path) = w_path THEN w_fs
               ELSE [w_fs EXCEPT ![w_path] = w_fs[TmpPath(w_path)],
                                 ![TmpPath(w_path)] = NoText]
    /\ w_pc' = "returned"
    /\ UNCHANGED <<w_path, w_content, w_prev>>
    /\ UNCHANGED notWriteVars

\* The process is killed at any step of the call.
WriteKill ==
    /\ w_pc \in {"call", "writing", "written"}
    /\ w_pc' = "killed"
    /\ UNCHANGED <<w_path, w_content, w_fs, w_prev>>
    /\ UNCHANGED notWriteVars

(***************************************************************************)
(* Part 5.  DownloadState.save and DownloadState.load                      *)
(***************************************************************************)
\* Python values, tagged by their type.  A dict is the set of its
\* <<key, value>> pairs.
PyStr(x) == [t |-> "str", v |-> x]
PyInt(n) == [t |-> "int", v |-> n]
PyNone == [t |-> "none", v |-> 0]
PyList(xs) == [t |-> "list", v |-> xs]
PyTuple(xs) == [t |-> "tuple", v |-> xs]
PySet(S) == [t |-> "set", v |-> S]
PyDict(kvs) == [t |-> "dict", v |-> kvs]

\* `key in d` and `d.get(key, default)` of a dict
HasKey(d, key) == \E kv \in d.v : kv[1] = PyStr(key)
GetKey(d, key, default) ==
    IF HasKey(d, key) THEN (CHOOSE kv \in d.v : kv[1] = PyStr(key))[2]
    ELSE default

\* str(x), for the values met here: an int in decimal, a string quoted inside
\* a container, a set of one element in braces.
Digits == <<"0", "1", "2", "3", "4", "5", "6", "7", "8", "9">>
StrOf(x) ==
    CASE x.t = "int" -> Digits[x.v + 1]
      [] x.t = "str" -> x.v
      [] x.t = "set" ->
           LET e == CHOOSE y \in x.v : TRUE
           IN "{" \o (IF e.t = "str" THEN "'" \o e.v \o "'" ELSE Digits[e.v + 1]) \o "}"

\* json.dumps(x, default=str) followed by json.loads: the document a reader
\* of the written text gets.  Tuples are written as arrays, dict keys as
\* strings, and a value json cannot write (here: a set) as the string str(x).
RECURSIVE Dumps(_)
Dumps(x) ==
    CASE x.t \in {"str", "int", "none"} -> x
      [] x.t \in {"list", "tuple"} -> PyList([n \in 1..Len(x.v) |-> Dumps(x.v[n])])
      [] x.t = "dict" -> PyDict({<<PyStr(StrOf(kv[1])), Dumps(kv[2])>> : kv \in x.v})
      [] x.t = "set" -> PyStr(StrOf(x))

\* cls(): the empty DownloadState
NoSets == [x \in {} |-> {}]
NewState ==
    [phases |-> NoSets, discovered |-> NoSets,
     last_checkpoint |-> PyStr(""), extra |-> PyDict({})]

\* {k: list(v) for k, v in d.items()}: every set in some order
AsLists(d) ==
    {g \in [DOMAIN d -> UNION {Orderings(d[x]) : x \in DOMAIN d}] :
        \A x \in DOMAIN d : g[x] \in Orderings(d[x])}
ListDict(g) == PyDict({<<PyStr(x), PyList(g[x])>> : x \in DOMAIN g})

\* The documents save can write for state st at time now.
SaveData(st, now) ==
    {Dumps(PyDict({<<PyStr("phases"), ListDict(ph)>>,
                   <<PyStr("discovered"), ListDict(di)>>,
                   <<PyStr("last_checkpoint"), PyStr(now)>>,
                   <<PyStr("extra"), st.extra>>})) :
        ph \in AsLists(st.phases), di \in AsLists(st.discovered)}

\* The checkpoint file: absent, unreadable (read_text raises OSError), bytes
\* that are no text (read_text raises UnicodeDecodeError), text that is no
\* JSON, or a JSON document.
FileOf(kind) == [kind |-> kind, doc |-> PyNone]
JsonFile(doc) == [kind |-> "json", doc |-> doc]

\* What load does: returns a state, or an exception leaves it.
Returns(st) == [kind |-> "state", exc |-> "-", state |-> st]
Raises(exc) == [kind |-> "raised", exc |-> exc, state |-> NewState]

\* set(x): defined for iterables of hashable elements.  (A string would give
\* the set of its characters; no explored document has one in that place.)
Hashable(x) == x.t \in {"str", "int", "none"}
CanSet(x) ==
    \/ x.t = "dict"
    \/ x.t = "list" /\ \A n \in 1..Len(x.v) : Hashable(x.v[n])
SetOfMutFirstOnly(x) ==
    IF x.t = "dict" THEN {kv[1] : kv \in x.v}
    ELSE {x.v[n] : n \in 1..Min(1, Len(x.v))}
SetOf(x) ==
    IF x.t = "dict" THEN {kv[1] : kv \in x.v}
    ELSE {x.v[n] : n \in 1..Len(x.v)}
\* {k: set(v) for k, v in d.items()}
DictOfSets(d) == [x \in {kv[1].v : kv \in d.v} |-> SetOf(GetKey(d, x, PyNone))]

\* load, the current layout: the branch `if "phases" in data`
LoadNew(data) ==
    LET ph == GetKey(data, "phases", PyDict({}))
        di == GetKey(data, "discovered", PyDict({}))
    IN IF ph.t # "dict" THEN Raises("AttributeError")
       ELSE IF \E kv \in ph.v : ~CanSet(kv[2]) THEN Raises("TypeError")
       ELSE IF di.t # "dict" THEN Raises("AttributeError")
       ELSE IF \E kv \in di.v : ~CanSet(kv[2]) THEN Raises("TypeError")
       ELSE Returns([phases |-> DictOfSets(ph),
                     discovered |-> DictOfSets(di),
                     last_checkpoint |-> GetKey(data, "last_checkpoint", PyStr("")),
                     extra |-> GetKey(data, "extra", PyDict({}))])

\* load, the old flat layout
LegacyPhases ==
    [posts |-> "posts_with_details", submolts |-> "submolts_fetched",
     agents |-> "agents_fetched"]
LegacyDiscovered ==
    [agent_names |-> "agent_names_discovered",
     submolt_names |-> "submolt_names_discovered"]
LegacyKeys == {LegacyPhases[x] : x \in DOMAIN LegacyPhases}
                  \cup {LegacyDiscovered[x] : x \in DOMAIN LegacyDiscovered}
LoadLegacyMutNoCounts(data) ==
    IF \E key \in LegacyKeys : ~CanSet(GetKey(data, key, PyList(<<>>)))
      THEN Raises("TypeError")
      ELSE Returns(
        [phases |-> [x \in DOMAIN LegacyPhases |->
                        SetOf(GetKey(data, LegacyPhases[x], PyList(<<>>)))],
         discovered |-> [x \in DOMAIN LegacyDiscovered |->
                        SetOf(GetKey(data, LegacyDiscovered[x], PyList(<<>>)))],
         last_checkpoint |-> GetKey(data, "last_checkpoint", PyStr("")),
         extra |-> PyDict({})])
LoadLegacy(data) ==
    IF \E key \in LegacyKeys : ~CanSet(GetKey(data, key, PyList(<<>>)))
      THEN Raises("TypeError")
      ELSE Returns(
        [phases |-> [x \in DOMAIN LegacyPhases |->
                        SetOf(GetKey(data, LegacyPhases[x], PyList(<<>>)))],
         discovered |-> [x \in DOMAIN LegacyDiscovered |->
                        SetOf(GetKey(data, LegacyDiscovered[x], PyList(<<>>)))],
         last_checkpoint |-> GetKey(data, "last_checkpoint", PyStr("")),
         extra |-> PyDict({<<PyStr("post_comment_counts"),
                            GetKey(data, "post_comment_counts", PyDict({}))>>})])

\* DownloadState.load(path)
Load(f) ==
    IF f.kind = "absent" THEN Returns(NewState)
    ELSE IF f.kind = "undecodable" THEN Raises("UnicodeDecodeError")
    ELSE IF f.kind \in {"unreadable", "garbage"} THEN Returns(NewState)
    ELSE IF f.doc.t \in {"int", "none"} THEN Raises("TypeError")
    ELSE IF f.doc.t \in {"list", "str"} THEN Raises("AttributeError")
    ELSE IF HasKey(f.doc, "phases") THEN LoadNew(f.doc)
    ELSE LoadLegacy(f.doc)

\* The states explored: identifiers and names are strings; extra holds
\* nothing or one entry whose value is of one of the listed kinds.
IdVals == {PyStr("p1"), PyStr("p2")}
ExtraVals ==
    {PyInt(5), PyStr("s"), PyList(<<PyInt(1), PyStr("s")>>),
     PyTuple(<<PyInt(1)>>), PySet({PyInt(1)}),
     PyDict({<<PyStr("p1"), PyInt(5)>>}), PyDict({<<PyInt(1), PyInt(5)>>})}
SetDicts(keys) == UNION {[D -> SUBSET IdVals] : D \in SUBSET keys}
States ==
    [phases : SetDicts({"posts", "agents"}),
     discovered : SetDicts({"agent_names"}),
     last_checkpoint : {PyStr("t0")},
     extra : {PyDict({})}
                 \cup {PyDict({<<PyStr("post_comment_counts"), x>>}) : x \in ExtraVals}]

\* The old-layout documents explored: lists with repeated entries.
IdLists ==
    {<<>>, <<PyStr("p1")>>, <<PyStr("p1"), PyStr("p1")>>,
     <<PyStr("p1"), PyStr("p2"), PyStr("p1")>>}
ShortLists == {<<>>, <<PyStr("p2"), PyStr("p2")>>}
CountDicts == {PyDict({}), PyDict({<<PyStr("p1"), PyInt(5)>>})}
LegacyDocs ==
    {PyDict({<<PyStr("posts_with_details"), PyList(l1)>>,
             <<PyStr("submolts_fetched"), PyList(l2)>>,
             <<PyStr("agents_fetched"), PyList(l3)>>,
             <<PyStr("agent_names_discovered"), PyList(l4)>>,
             <<PyStr("submolt_names_discovered"), PyList(l5)>>,
             <<PyStr("last_checkpoint"), PyStr("t0")>>,
             <<PyStr("post_comment_counts"), cd>>}) :
        l1 \in IdLists, l2 \in ShortLists, l3 \in ShortLists,
        l4 \in ShortLists, l5 \in IdLists, cd \in CountDicts}
\* Documents that are JSON but no checkpoint of either layout.
OddDocs ==
    {PyList(<<>>), PyInt(1), PyNone, PyStr("phases"), PyDict({}),
     PyDict({<<PyStr("phases"), PyList(<<>>)>>}),
     PyDict({<<PyStr("phases"), PyDict({<<PyStr("posts"), PyInt(5)>>})>>}),
     PyDict({<<PyStr("phases"),
               PyDict({<<PyStr("posts"), PyList(<<PyList(<<PyStr("p1")>>)>>)>>})>>}),
     PyDict({<<PyStr("phases"), PyDict({})>>, <<PyStr("discovered"), PyNone>>}),
     PyDict({<<PyStr("posts_with_details"), PyInt(5)>>})}
FilesThere ==
    {FileOf("absent"), FileOf("unreadable"), FileOf("undecodable"), FileOf("garbage")}
        \cup {JsonFile(d) : d \in LegacyDocs \cup OddDocs}

CkInit ==
    /\ k_pc = "start"
    /\ \/ k_state \in States /\ k_file = FileOf("absent")
       \/ k_state = NewState /\ k_file \in FilesThere
    /\ k_out = Returns(NewState)

\* The variables of this part while save and load are not modelled.
CkParked ==
    /\ k_pc = "parked"
    /\ k_state = NewState
    /\ k_file = FileOf("absent")
    /\ k_out = Returns(NewState)

\* state.save(path): the document is built and atomic_write puts it in place.
Save ==
    /\ k_pc = "start"
    /\ k_state \in States
    /\ \E d \in SaveData(k_state, "t1") : k_file' = JsonFile(d)
    /\ k_pc' = "saved"
    /\ UNCHANGED <<k_state, k_out>>
    /\ UNCHANGED notCkVars

\* DownloadState.load(path), on the file as found or as just saved
LoadCall ==
    /\ k_pc \in {"start", "saved"}
    /\ k_out' = Load(k_file)
    /\ k_pc' = IF k_pc = "start" THEN "loaded" ELSE "reloaded"
    /\ UNCHANGED <<k_state, k_file>>
    /\ UNCHANGED notCkVars

(***************************************************************************)
(* Part 6.  paginate                                                       *)
(***************************************************************************)
\* What client.get hands back for one page request: None (absent), a JSON
\* array, or a JSON object.  Of an object: the success and has_more fields
\* ("missing" when the key is not there), the array under items_key (empty
\* also when the key is missing), and next_offset (-1 when the key is missing).
Flags == {"true", "false", "missing"}
NoNextOffset == 0 - 1
PageObject(sc, its, hm, no) ==
    [kind |-> "object", success |-> sc, items |-> its, has_more |-> hm,
     next_offset |-> no]
NoPage == [PageObject("missing", <<>>, "missing", NoNextOffset) EXCEPT !.kind = "absent"]
ArrayPage == [PageObject("missing", <<>>, "missing", NoNextOffset) EXCEPT !.kind = "array"]
NotAsked == [PageObject("missing", <<>>, "missing", NoNextOffset) EXCEPT !.kind = "none"]
PageLists == SeqsUpTo(ItemIds, MaxPageLen)
\* The answers explored: pages without success (with or without items),
\* empty pages with any has_more, last pages, and pages to be continued with
\* any declared next_offset or none.
PageResponses ==
    {NoPage, ArrayPage}
    \cup {PageObject(sc, its, "true", NoNextOffset) :
            sc \in {"false", "missing"}, its \in {q \in PageLists : Len(q) <= 1}}
    \cup {PageObject("true", <<>>, hm, NoNextOffset) : hm \in Flags}
    \cup {PageObject("true", its, hm, NoNextOffset) :
            its \in PageLists \ {<<>>}, hm \in {"false", "missing"}}
    \cup {PageObject("true", its, "true", no) :
            its \in PageLists \ {<<>>}, no \in {NoNextOffset} \cup 0..MaxOffset}

\* `not data or not data.get("success")`
Rejected(resp) == resp.kind = "absent" \/ resp.success # "true"
\* `if not items`
NoItemsMutOnlyWhenDone(resp) == resp.items = <<>> /\ resp.has_more # "true"
NoItems(resp) == resp.items = <<>>
\* `not data.get("has_more", False)`
LastPage(resp) == resp.has_more # "true"
\* all_items.extend(items)
ExtendMutDedup(all, its) ==
    all \o SelectSeq(its, LAMBDA x : \A n \in 1..Len(all) : all[n] # x)
Extend(all, its) == all \o its
\* data.get("next_offset", offset + len(items))
NextOffsetMutIgnoreDeclared(resp, off) == off + Len(resp.items)
NextOffset(resp, off) ==
    IF resp.next_offset = NoNextOffset THEN off + Len(resp.items)
    ELSE resp.next_offset

\* The caller's arguments: params (None gives the empty dict) and limit.
\* A dict is a function from its keys; a caller may use the keys "offset"
\* and "limit" itself.
NoParams == [k \in {} |-> 0]
SortedParams == [k \in {"sort"} |-> 1]
ClashingParams == [k \in {"sort", "offset", "limit"} |-> 7]
PageArgs ==
    {[params |-> NoParams, limit |-> 100],
     [params |-> SortedParams, limit |-> 2],
     [params |-> ClashingParams, limit |-> 1]}
\* page_params = {**base_params, "offset": offset, "limit": limit}
PageParams(base, off, lim) ==
    [k \in DOMAIN base \cup {"offset", "limit"} |->
        IF k = "offset" THEN off ELSE IF k = "limit" THEN lim ELSE base[k]]

PageInit ==
    /\ p_pc = "request"
    /\ p_args \in PageArgs
    /\ p_offset = 0
    /\ p_items = <<>>
    /\ p_reqs = <<>>
    /\ p_accepted = <<>>
    /\ p_last = NotAsked

\* The variables of paginate while no call is modelled.
PageParked ==
    /\ p_pc = "parked"
    /\ p_args = [params |-> NoParams, limit |-> 100]
    /\ p_offset = 0
    /\ p_items = <<>>
    /\ p_reqs = <<>>
    /\ p_accepted = <<>>
    /\ p_last = NotAsked

\* One turn of `while True`: the page at offset is requested and the answer
\* is handled.  An answer that is a JSON array has no .get: AttributeError.
PageTurn ==
    /\ p_pc = "request"
    /\ Len(p_reqs) < MaxPages
    /\ \E resp \in PageResponses :
         /\ p_reqs' = Append(p_reqs, PageParams(p_args.params, p_offset, p_args.limit))
         /\ p_last' = resp
         /\ IF resp.kind = "array"
              THEN p_pc' = "raised" /\ UNCHANGED <<p_offset, p_items, p_accepted>>
            ELSE IF Rejected(resp) \/ NoItems(resp)
              THEN p_pc' = "returned" /\ UNCHANGED <<p_offset, p_items, p_accepted>>
            ELSE /\ p_items' = Extend(p_items, resp.items)
                 /\ p_accepted' = Append(p_accepted, resp.items)
                 /\ IF LastPage(resp)
                      THEN p_pc' = "returned" /\ UNCHANGED p_offset
                      ELSE p_pc' = "request" /\ p_offset' = NextOffset(resp, p_offset)
    /\ UNCHANGED p_args
    /\ UNCHANGED notPageVars

(***************************************************************************)
(* Part 7.  get calls of one batch on one client instance                  *)
(***************************************************************************)
\* asyncio.gather starts one get call per item of the batch on the same
\* client; the event loop runs one of them at a time and switches at an
\* await (the request, the backoff sleep).
MaxTasks == 2
Tasks == 1..MaxTasks

TasksInit ==
    /\ max_retries \in 0..MaxRetries
    /\ request_count = 0
    /\ not_found_count = 0
    /\ g_pc = "parked"
    /\ attempt = 0
    /\ last_error = FALSE
    /\ g_result = "absent"
    /\ g_hist = <<>>
    /\ g_sleeps = 0
    /\ g_calls = 0
    /\ g_rc0 = 0
    /\ g_nf0 = 0
    /\ t_pc = [c \in Tasks |-> "loop"]
    /\ t_attempt = [c \in Tasks |-> 0]
    /\ t_issued = [c \in Tasks |-> 0]
    /\ t_ret = [c \in Tasks |-> "pending"]
    /\ t_j = 1
    /\ t_done = {}

\* The task variables while no batch of get calls is modelled.
TaskParked ==
    /\ t_pc = [c \in Tasks |-> "parked"]
    /\ t_attempt = [c \in Tasks |-> 0]
    /\ t_issued = [c \in Tasks |-> 0]
    /\ t_ret = [c \in Tasks |-> "pending"]
    /\ t_j = 1
    /\ t_done = {}

\* `self.request_count += 1` of a call that counts its first attempt only
TaskIssueMutFirstOnly(c) ==
    /\ t_pc[c] = "loop"
    /\ request_count' = IF t_attempt[c] = 0 THEN request_count + 1 ELSE request_count
    /\ t_issued' = [t_issued EXCEPT ![c] = @ + 1]
    /\ t_pc' = [t_pc EXCEPT ![c] = "request"]
    /\ UNCHANGED <<max_retries, not_found_count, g_pc, attempt, last_error,
                   g_result, g_hist, g_sleeps, g_calls, g_rc0, g_nf0, t_attempt,
                   t_ret, t_j, t_done>>
    /\ UNCHANGED notTaskVars

\* `self.request_count += 1`, then the call waits at
\* `await self.client.get(...)`: no await lies between the read and the
\* write of the counter.
TaskIssue(c) ==
    /\ t_pc[c] = "loop"
    /\ request_count' = request_count + 1
    /\ t_issued' = [t_issued EXCEPT ![c] = @ + 1]
    /\ t_pc' = [t_pc EXCEPT ![c] = "request"]
    /\ UNCHANGED <<max_retries, not_found_count, g_pc, attempt, last_error,
                   g_result, g_hist, g_sleeps, g_calls, g_rc0, g_nf0, t_attempt,
                   t_ret, t_j, t_done>>
    /\ UNCHANGED notTaskVars

\* What gather holds for a call whose loop body decided d.
Returned(d) ==
    CASE d = "return_doc" -> "doc"
      [] d = "not_found" -> "not_found"
      [] d = "raise" -> "raised"
      [] d = "retry" -> "pending"
      [] OTHER -> "none"

\* a call that marks its item done itself, when its request is answered
TaskAnswerMutMarksDone(c) ==
    /\ t_pc[c] = "request"
    /\ \E ans \in Answers :
         LET d == Decide(ans, t_attempt[c], max_retries) IN
         /\ not_found_count' =
                IF d = "not_found" THEN not_found_count + 1 ELSE not_found_count
         /\ t_pc' = [t_pc EXCEPT ![c] = IF d = "retry" THEN "sleep" ELSE "returned"]
         /\ t_ret' = [t_ret EXCEPT ![c] = Returned(d)]
         /\ t_done' = IF d = "return_doc" THEN t_done \cup {c} ELSE t_done
    /\ UNCHANGED <<max_retries, request_count, g_pc, attempt, last_error,
                   g_result, g_hist, g_sleeps, g_calls, g_rc0, g_nf0,
                   t_attempt, t_issued, t_j>>
    /\ UNCHANGED notTaskVars
\* The request of call c settles and the call runs on to its return or to
\* its backoff sleep; `self.not_found_count += 1` on a 404 or 405.
TaskAnswer(c) ==
    /\ t_pc[c] = "request"
    /\ \E ans \in Answers :
         LET d == Decide(ans, t_attempt[c], max_retries) IN
         /\ not_found_count' =
                IF d = "not_found" THEN not_found_count + 1 ELSE not_found_count
         /\ t_pc' = [t_pc EXCEPT ![c] = IF d = "retry" THEN "sleep" ELSE "returned"]
         /\ t_ret' = [t_ret EXCEPT ![c] = Returned(d)]
    /\ UNCHANGED <<max_retries, request_count, g_pc, attempt, last_error,
                   g_result, g_hist, g_sleeps, g_calls, g_rc0, g_nf0,
                   t_attempt, t_issued, t_j, t_done>>
    /\ UNCHANGED notTaskVars

\* The sleep of call c is over: `continue`, the loop header.
TaskWake(c) ==
    /\ t_pc[c] = "sleep"
    /\ t_attempt' = [t_attempt EXCEPT ![c] = @ + 1]
    /\ t_pc' = [t_pc EXCEPT ![c] =
                   IF t_attempt[c] + 1 <= max_retries THEN "loop" ELSE "returned"]
    /\ t_ret' = [t_ret EXCEPT ![c] =
                    IF t_attempt[c] + 1 <= max_retries THEN "pending" ELSE "none"]
    /\ UNCHANGED <<max_retries, request_count, not_found_count, g_pc, attempt,
                   last_error, g_result, g_hist, g_sleeps, g_calls, g_rc0, g_nf0,
                   t_issued, t_j, t_done>>
    /\ UNCHANGED notTaskVars

\* `results = await asyncio.gather(...)` has returned, which it does once
\* every call has; one turn of `for item_id, result in zip(batch, results)`:
\* an exception or None counts as failed, a document is written and
\* state.mark_done is called.
TaskCommit ==
    /\ \A c \in Tasks : t_pc[c] = "returned"
    /\ t_j <= MaxTasks
    /\ t_done' = IF t_ret[t_j] = "doc" THEN t_done \cup {t_j} ELSE t_done
    /\ t_j' = t_j + 1
    /\ UNCHANGED <<getVars, t_pc, t_attempt, t_issued, t_ret>>
    /\ UNCHANGED notTaskVars

(***************************************************************************)
(* Part 8.  sanitize_filename                                              *)
(***************************************************************************)
\* The characters names are made of here: the nine the pattern lists, the
\* underscore, the dot, the dash, a letter and a blank.
MaxNameLen == 2
NameChars == SpecialChars \cup {"_", ".", "-", "a", " "}
Names == UNION {[1..n -> NameChars] : n \in 0..MaxNameLen}

SanInit ==
    /\ n_pc = "call"
    /\ n_name \in Names
    /\ n_out = <<>>

\* The sanitizer variables while no call is modelled.
SanParked ==
    /\ n_pc = "parked"
    /\ n_name = <<>>
    /\ n_out = <<>>

\* return re.sub(r'[<>:"/\\|?*]', '_', name)
SanCall ==
    /\ n_pc = "call"
    /\ n_out' = sanitize_filename(n_name)
    /\ n_pc' = "returned"
    /\ UNCHANGED n_name
    /\ UNCHANGED notSanVars

(***************************************************************************)
(* Part 9.  extract_names_from_response                                    *)
(***************************************************************************)
\* Python's truth test of a JSON value: None, "", 0, [] and {} are false.
Truthy(x) ==
    CASE x.t = "none" -> FALSE
      [] x.t = "str"  -> x.v # ""
      [] x.t = "int"  -> x.v # 0
      [] x.t = "list" -> x.v # <<>>
      [] x.t = "dict" -> x.v # {}

\* What a piece of the function does: the names it adds to the two
\* discovered sets, and whether it raised (after adding them).
Adds(ag, sm) == [raised |-> FALSE, agent_names |-> ag, submolt_names |-> sm]
AddsNothing == Adds({}, {})
RaisesHere == [raised |-> TRUE, agent_names |-> {}, submolt_names |-> {}]
\* two pieces one after the other: the second runs unless the first raised
Then(e1, e2) ==
    IF e1.raised THEN e1
    ELSE [raised |-> e2.raised,
          agent_names |-> e1.agent_names \cup e2.agent_names,
          submolt_names |-> e1.submolt_names \cup e2.submolt_names]

\* `d.get(k1) or d.get(k2)`
FirstTruthy(d, k1, k2) ==
    LET a == GetKey(d, k1, PyNone) IN
    IF Truthy(a) THEN a ELSE GetKey(d, k2, PyNone)

\* extract_from_author without the username fallback
extract_from_authorMutNameOnly(author) ==
    IF Truthy(author) /\ author.t = "dict"
      THEN LET name == GetKey(author, "name", PyNone) IN
           IF Truthy(name) THEN Adds({name.v}, {}) ELSE AddsNothing
      ELSE AddsNothing
extract_from_author(author) ==
    IF Truthy(author) /\ author.t = "dict"
      THEN LET name == FirstTruthy(author, "name", "username") IN
           IF Truthy(name) THEN Adds({name.v}, {}) ELSE AddsNothing
      ELSE AddsNothing

extract_from_submolt(submolt) ==
    IF Truthy(submolt) /\ submolt.t = "dict"
      THEN LET name == FirstTruthy(submolt, "name", "slug") IN
           IF Truthy(name) THEN Adds({}, {name.v}) ELSE AddsNothing
      ELSE AddsNothing

\* `for comment in comments or []`: a false value gives no turn; a list
\* gives its elements; a number is not iterable (TypeError); a string or a
\* dict gives strings, on which comment.get raises AttributeError, as it
\* does on every element that is not a dict.
RECURSIVE extract_from_comments(_)
RECURSIVE CommentsFrom(_, _)
CommentsFrom(xs, n) ==
    IF n > Len(xs) THEN AddsNothing
    ELSE IF xs[n].t # "dict" THEN RaisesHere
    ELSE Then(extract_from_author(GetKey(xs[n], "author", PyNone)),
         Then(extract_from_comments(GetKey(xs[n], "replies", PyList(<<>>))),
              CommentsFrom(xs, n + 1)))
extract_from_comments(comments) ==
    IF ~Truthy(comments) THEN AddsNothing
    ELSE IF comments.t = "list" THEN CommentsFrom(comments.v, 1)
    ELSE RaisesHere

\* post = data.get("post", {}); post.get("author"), post.get("submolt"):
\* a post that is not a dict has no .get
FromPost(data) ==
    LET post == GetKey(data, "post", PyDict({})) IN
    IF post.t # "dict" THEN RaisesHere
    ELSE Then(extract_from_author(GetKey(post, "author", PyNone)),
              extract_from_submolt(GetKey(post, "submolt", PyNone)))
\* agent = data.get("agent", {}); if agent: name = agent.get("name")
FromAgent(data) ==
    LET agent == GetKey(data, "agent", PyDict({})) IN
    IF ~Truthy(agent) THEN AddsNothing
    ELSE IF agent.t # "dict" THEN RaisesHere
    ELSE LET name == GetKey(agent, "name", PyNone) IN
         IF Truthy(name) THEN Adds({name.v}, {}) ELSE AddsNothing
\* the body of extract_names_from_response, in the order of its statements
extract_names_from_response(data) ==
    Then(FromPost(data),
    Then(extract_from_comments(GetKey(data, "comments", PyList(<<>>))),
    Then(FromAgent(data),
         extract_from_submolt(GetKey(data, "submolt", PyDict({}))))))

\* The documents explored.  A field is missing, null, of the expected
\* shape or of another shape; a dict is built from the fields that are
\* not missing.
Missing == [t |-> "missing", v |-> 0]
MkDict(kvs) == PyDict({<<PyStr(kv[1]), kv[2]>> : kv \in {q \in kvs : q[2] # Missing}})
MaxDepth == 1
MaxComments == 2
NameVals(n) == {Missing, PyNone, PyStr(""), PyStr(n)}
AuthorVals ==
    {Missing, PyNone, PyStr("a3"), PyDict({})}
    \cup {MkDict({<<"name", n>>, <<"username", u>>}) :
             n \in NameVals("a1"), u \in NameVals("a2")}
SubmoltVals ==
    {Missing, PyNone, PyStr("s3"), PyDict({})}
    \cup {MkDict({<<"name", n>>, <<"slug", u>>}) :
             n \in {Missing, PyStr(""), PyStr("s1")}, u \in {Missing, PyStr("s2")}}
PostVals ==
    {PyNone, PyStr("p"), PyList(<<>>), PyInt(0)}
    \cup {MkDict({<<"author", a>>, <<"submolt", m>>}) :
             a \in AuthorVals, m \in SubmoltVals}
CommentAuthorVals ==
    {Missing, PyNone, MkDict({<<"name", PyStr("a1")>>}),
     MkDict({<<"username", PyStr("a2")>>})}
NoReplies == {Missing, PyNone, PyInt(1), PyList(<<>>)}
RECURSIVE CommentsAt(_)
RepliesAt(d) ==
    IF d = 0 THEN NoReplies
    ELSE NoReplies \cup {PyList(<<c>>) : c \in CommentsAt(d - 1)}
CommentsAt(d) ==
    {PyNone, PyStr("c")}
    \cup {MkDict({<<"author", a>>, <<"replies", r>>}) :
             a \in CommentAuthorVals, r \in RepliesAt(d)}
Siblings == {PyNone, MkDict({<<"author", MkDict({<<"name", PyStr("a3")>>})>>})}
CommentLists ==
    {PyNone, PyInt(1), PyStr("x"), PyList(<<>>), MkDict({<<"k", PyNone>>})}
    \cup {PyList(<<c>> \o rest) :
             c \in CommentsAt(MaxDepth), rest \in SeqsUpTo(Siblings, MaxComments - 1)}
AgentVals ==
    {PyNone, PyDict({}), PyStr("x"), PyInt(0), PyInt(1), PyList(<<>>),
     MkDict({<<"name", PyStr("a1")>>}), MkDict({<<"username", PyStr("a2")>>})}
FullPost == MkDict({<<"author", MkDict({<<"name", PyStr("a1")>>})>>,
                    <<"submolt", MkDict({<<"slug", PyStr("s2")>>})>>})
Documents ==
    {PyDict({})}
    \cup {MkDict({<<"post", v>>}) : v \in PostVals}
    \cup {MkDict({<<"post", v>>, <<"comments", c>>}) :
             v \in {Missing, PyDict({})}, c \in CommentLists}
    \cup {MkDict({<<"agent", a>>, <<"submolt", m>>}) :
             a \in AgentVals, m \in {Missing, MkDict({<<"name", PyStr("s1")>>})}}
    \cup {MkDict({<<"submolt", m>>}) : m \in SubmoltVals}
    \cup {MkDict({<<"post", FullPost>>, <<"comments", c>>, <<"agent", a>>}) :
             c \in {PyInt(1), PyList(<<PyNone>>)} \cup {PyList(<<q>>) : q \in Siblings},
             a \in {Missing, PyStr("x")}}

\* state.discovered before the call
NoNames == [agent_names |-> {}, submolt_names |-> {}]
EarlierNames == [agent_names |-> {"a0"}, submolt_names |-> {"s0"}]

NamesInit ==
    /\ x_pc = "call"
    /\ x_data \in Documents
    /\ x_disc \in {NoNames, EarlierNames}

\* The extractor variables while no call is modelled.
NamesParked ==
    /\ x_pc = "parked"
    /\ x_data = PyDict({})
    /\ x_disc = NoNames

\* One call: the names found before the end, or before the statement that
\* raised, are in state.discovered (add_discovered adds to a set).
NamesCall ==
    /\ x_pc = "call"
    /\ LET e == extract_names_from_response(x_data) IN
       /\ x_disc' = [agent_names |-> x_disc.agent_names \cup e.agent_names,
                     submolt_names |-> x_disc.submolt_names \cup e.submolt_names]
       /\ x_pc' = IF e.raised THEN "raised" ELSE "returned"
    /\ UNCHANGED x_data
    /\ UNCHANGED notNamesVars

(***************************************************************************)
(* Part 10.  archive_post_if_changed                                       *)
(***************************************************************************)
\* What current_file holds: nothing (exists() is false), text json.loads
\* rejects (a file cut short by a kill, an empty file), or a document.
NoSuchFile == [t |-> "nofile", v |-> 0]
NotJson == [t |-> "notjson", v |-> 0]

\* The post documents explored, as fetch_post_with_comments stores them: an
\* object with the time stamp stamp_metadata adds, whose "comments", when
\* present, is an array and whose "post", when present, is an object with
\* or without content and title.
Stamps == {<<"1", ":", "0", "+", "0">>, <<"1", ":", "0", ".", "5">>}
StampVals == {Missing} \cup {PyStr(ts) : ts \in Stamps}
ContentVals == {Missing, PyNone, PyStr("a"), PyStr("b")}
TitleVals == {Missing, PyStr("t"), PyStr("u")}
ArchPosts ==
    {Missing} \cup {MkDict({<<"content", x>>, <<"title", y>>}) :
                       x \in ContentVals, y \in TitleVals}
ArchComments ==
    {Missing} \cup {PyList([k \in 1..n |-> PyDict({})]) : n \in 0..MaxComments}
PostDocs(stamps) ==
    {MkDict({<<"post", p>>, <<"comments", c>>, <<"_downloaded_at", ts>>}) :
        p \in ArchPosts, c \in ArchComments, ts \in stamps}

\* old_timestamp.replace(":", "-").replace("+", "_").replace(".", "-")
SafeTimestamp(ts) ==
    [k \in 1..Len(ts) |->
        CASE ts[k] = ":" -> "-"
          [] ts[k] = "+" -> "_"
          [] ts[k] = "." -> "-"
          [] OTHER -> ts[k]]
Unknown == <<"u", "n", "k", "n", "o", "w", "n">>

\* archive_file.write_text(...) in a directory held as <<name, document>>
\* pairs: the file of that name is created or replaced
WriteInto(dir, name, doc) == {f \in dir : f[1] # name} \cup {<<name, doc>>}

\* the title is left out of the comparison
archive_post_if_changedMutNoTitle(file, new_data, dir) ==
    IF file = NoSuchFile \/ file = NotJson THEN [ret |-> FALSE, dir |-> dir]
    ELSE
      LET old_count == Len(GetKey(file, "comments", PyList(<<>>)).v)
          new_count == Len(GetKey(new_data, "comments", PyList(<<>>)).v)
          old_post == GetKey(file, "post", PyDict({}))
          new_post == GetKey(new_data, "post", PyDict({}))
          content_changed ==
              \/ old_count # new_count
              \/ GetKey(old_post, "content", PyNone) # GetKey(new_post, "content", PyNone)
          old_timestamp == GetKey(file, "_downloaded_at", PyStr(Unknown)).v
      IN IF ~content_changed THEN [ret |-> FALSE, dir |-> dir]
         ELSE [ret |-> TRUE,
               dir |-> WriteInto(dir, SafeTimestamp(old_timestamp), Dumps(file))]
\* archive_post_if_changed(posts_dir, post_id, new_data): what it returns
\* and what the archive directory of the post holds afterwards
archive_post_if_changed(file, new_data, dir) ==
    IF file = NoSuchFile \/ file = NotJson THEN [ret |-> FALSE, dir |-> dir]
    ELSE
      LET old_count == Len(GetKey(file, "comments", PyList(<<>>)).v)
          new_count == Len(GetKey(new_data, "comments", PyList(<<>>)).v)
          old_post == GetKey(file, "post", PyDict({}))
          new_post == GetKey(new_data, "post", PyDict({}))
          content_changed ==
              \/ old_count # new_count
              \/ GetKey(old_post, "content", PyNone) # GetKey(new_post, "content", PyNone)
              \/ GetKey(old_post, "title", PyNone) # GetKey(new_post, "title", PyNone)
          old_timestamp == GetKey(file, "_downloaded_at", PyStr(Unknown)).v
      IN IF ~content_changed THEN [ret |-> FALSE, dir |-> dir]
         ELSE [ret |-> TRUE,
               dir |-> WriteInto(dir, SafeTimestamp(old_timestamp), Dumps(file))]

\* The archive directory before the call: empty, or holding an earlier
\* version of the post.
EarlierArchives == {{}, {<<SafeTimestamp(Unknown), PyDict({})>>}}

ArchInit ==
    /\ a_pc = "call"
    /\ a_file \in {NoSuchFile, NotJson} \cup PostDocs(StampVals)
    /\ a_new \in PostDocs({PyStr(<<"2">>)})
    /\ a_ret = FALSE
    /\ a_archive \in EarlierArchives
    /\ a_arch0 = a_archive

\* The archiver variables while no call is modelled.
ArchParked ==
    /\ a_pc = "parked"
    /\ a_file = NoSuchFile
    /\ a_new = PyDict({})
    /\ a_ret = FALSE
    /\ a_archive = {}
    /\ a_arch0 = {}

\* One call of archive_post_if_changed.
ArchCall ==
    /\ a_pc = "call"
    /\ LET out == archive_post_if_changed(a_file, a_new, a_archive) IN
       /\ a_ret' = out.ret
       /\ a_archive' = out.dir
    /\ a_pc' = "returned"
    /\ UNCHANGED <<a_file, a_new, a_arch0>>
    /\ UNCHANGED notArchVars

(***************************************************************************)
(* Part 11.  paginate against a finite collection                          *)
(***************************************************************************)
\* The service holds a finite collection and serves it by offset: the page
\* at offset off holds the next `limit` entries, has_more says whether
\* entries remain behind the page.  A page to be continued declares any
\* next_offset, or none.
MaxCollLen == 2
Collections == SeqsUpTo(ItemIds, MaxCollLen)
PageAt(coll, off, lim) == SubSeq(coll, off + 1, Min(off + lim, Len(coll)))
ServedPages(coll, off, lim) ==
    LET its == PageAt(coll, off, lim) IN
    IF off + Len(its) < Len(coll)
      THEN {PageObject("true", its, "true", no) :
               no \in {NoNextOffset} \cup 0..MaxOffset}
      ELSE {PageObject("true", its, "false", NoNextOffset)}

\* The history variables record the first WalkCap turns of a call; a walk
\* over a collection of n entries whose offset grows needs n + 1 at most.
\* Every turn is counted modulo 2, so that a turn is a step also when the
\* record is full.
WalkCap == MaxCollLen + 2
Recorded(h, x) == IF Len(h) < WalkCap THEN Append(h, x) ELSE h

WalkInit ==
    /\ PageInit
    /\ p_coll \in Collections
    /\ p_tick = 0

\* The collection while no such call is modelled.
WalkParked == p_coll = <<>> /\ p_tick = 0

\* One turn of `while True` against the collection.
WalkTurn ==
    /\ p_pc = "request"
    /\ \E resp \in ServedPages(p_coll, p_offset, p_args.limit) :
         /\ p_reqs' = Recorded(p_reqs, PageParams(p_args.params, p_offset, p_args.limit))
         /\ p_last' = resp
         /\ IF Rejected(resp) \/ NoItems(resp)
              THEN p_pc' = "returned" /\ UNCHANGED <<p_offset, p_items, p_accepted>>
            ELSE /\ p_items' = IF Len(p_accepted) < WalkCap
                                 THEN Extend(p_items, resp.items) ELSE p_items
                 /\ p_accepted' = Recorded(p_accepted, resp.items)
                 /\ IF LastPage(resp)
                      THEN p_pc' = "returned" /\ UNCHANGED p_offset
                      ELSE p_pc' = "request" /\ p_offset' = NextOffset(resp, p_offset)
    /\ p_tick' = (p_tick + 1) % 2
    /\ UNCHANGED <<p_args, p_coll>>
    /\ UNCHANGED notWalkVars

\* The order of settling is not recorded.
OrderParked == b_overtook = "off"
\* The order of settling is recorded; before the first batch of run_batch
\* no fetch has overtaken another.
OrderInit == b_overtook = "no"

(***************************************************************************)
(* Part 13.  The communities and profiles loops over named items           *)
(*                                                                         *)
(* The zip loops of phases 2 and 3 of download_moltbook, taken over the    *)
(* whole work list (the batches are slices of it, processed in order), for *)
(* names as the service may hand them out.                                 *)
(***************************************************************************)
MaxWorkLen == 2
\* characters of the names: two that sanitize_filename replaces and one it
\* leaves alone
WorkChars == {"a", "/", "?"}
\* the names of MaxNameLen characters
WorkNames == [1..MaxNameLen -> WorkChars]
\* a work list is built from a set: its names are different
WorkLists ==
    {w \in SeqsUpTo(WorkNames, MaxWorkLen) :
        \A m, n \in 1..Len(w) : m # n => w[m] # w[n]}
OutPaths(ph) == {ItemPath(ph, x) : x \in WorkNames}

\* A first run enters the loop of a phase with its work list.
OutInit ==
    /\ o_phase \in {"submolts", "agents"}
    /\ o_work \in WorkLists
    /\ o_j = 1
    /\ o_files = [f \in OutPaths(o_phase) |-> RNoFile]
    /\ o_done = {}
    /\ o_saved = {}

\* The loop variables while no phase loop over names is modelled.
OutParked ==
    /\ o_phase = "submolts"
    /\ o_work = <<>>
    /\ o_j = 0
    /\ o_files = [f \in OutPaths("submolts") |-> RNoFile]
    /\ o_done = {}
    /\ o_saved = {}

\* the fetch of the item returned None or raised: failed += 1; continue
OutFailed ==
    /\ o_j \in 1..Len(o_work)
    /\ o_j' = o_j + 1
    /\ UNCHANGED <<o_phase, o_work, o_files, o_done, o_saved>>
    /\ UNCHANGED notOutVars

\* the fetch returned a document: safe_name = sanitize_filename(name), the
\* document is written to <dir>/<safe_name>.json, state.mark_done(phase, name)
OutWritten ==
    /\ o_j \in 1..Len(o_work)
    /\ LET name == o_work[o_j] IN
        /\ o_files' = [o_files EXCEPT ![ItemPath(o_phase, name)] =
                                          RemoteDoc(o_phase, name)]
        /\ o_done' = o_done \cup {name}
    /\ o_j' = o_j + 1
    /\ UNCHANGED <<o_phase, o_work, o_saved>>
    /\ UNCHANGED notOutVars

\* after the loop: state.save(checkpoint_path), inside `if <work list>:`
OutSaved ==
    /\ o_j = Len(o_work) + 1
    /\ o_work # <<>>
    /\ o_saved' = o_done
    /\ o_j' = o_j + 1
    /\ UNCHANGED <<o_phase, o_work, o_files, o_done>>
    /\ UNCHANGED notOutVars

\* The parts added last while none of them is modelled.
LateParked == ArchParked /\ WalkParked /\ OrderParked /\ OutParked
\* The added parts while none of them is modelled.
MoreParked == TaskParked /\ SanParked /\ NamesParked /\ LateParked
(***************************************************************************)
(* Specifications of download_moltbook                                     *)
(***************************************************************************)
\* The library variables while none of these functions is modelled.
LibParked == WriteParked /\ CkParked /\ PageParked /\ MoreParked

InitRun == RunInit /\ GetParked /\ BatchParked /\ LibParked

SpecRun == InitRun /\ [][NextRun]_vars

(***************************************************************************)
(* Specification of the posts phase                                        *)
(***************************************************************************)
InitFeed == FeedInit /\ GetParked /\ BatchParked /\ LibParked
SpecFeed == InitFeed /\ [][NextFeed]_vars
(***************************************************************************)
(* Specifications of run_batch                                             *)
(***************************************************************************)
NextBatch ==
    \/ BatchStart \/ FetchSettle \/ GatherDone
    \/ ItemFailed \/ ItemSave
    \/ WriteTmp \/ WriteRaises \/ Rename \/ MarkDone \/ OnResult \/ OnResultRaises
    \/ Count \/ Periodic \/ Delay \/ Final \/ SaveTmp \/ SaveRename

InitBatch == BatchInit /\ GetParked /\ RunParked /\ LibParked

SpecBatch == InitBatch /\ [][NextBatch]_vars

(***************************************************************************)
(* Specifications of the client                                            *)
(***************************************************************************)
NextGet == GetCall \/ GetAttempt \/ GetSleep \/ GetReturn

InitGet == GetInit /\ BatchParked /\ RunParked /\ LibParked

SpecGet == InitGet /\ [][NextGet]_vars

\* The event loop resumes an awaited request or sleep once it settles (the
\* request is bounded by config.timeout, the sleep by its delay).
FairSpecGet == SpecGet /\ WF_vars(GetAttempt) /\ WF_vars(GetSleep)

(***************************************************************************)
(* Specification of atomic_write                                           *)
(***************************************************************************)
NextWrite == OpenTmp \/ CloseTmp \/ RenameTmp \/ WriteKill
InitWrite ==
    /\ WriteInit /\ GetParked /\ BatchParked /\ RunParked /\ CkParked
    /\ PageParked /\ MoreParked
SpecWrite == InitWrite /\ [][NextWrite]_vars

(***************************************************************************)
(* Specification of DownloadState.save and DownloadState.load              *)
(***************************************************************************)
NextCk == Save \/ LoadCall
InitCk ==
    /\ CkInit /\ GetParked /\ BatchParked /\ RunParked /\ WriteParked
    /\ PageParked /\ MoreParked
SpecCk == InitCk /\ [][NextCk]_vars

(***************************************************************************)
(* Specification of paginate                                               *)
(***************************************************************************)
NextPage == PageTurn
InitPage ==
    /\ PageInit /\ GetParked /\ BatchParked /\ RunParked /\ WriteParked
    /\ CkParked /\ MoreParked
SpecPage == InitPage /\ [][NextPage]_vars

(***************************************************************************)
(* Specification of the get calls of one batch                             *)
(***************************************************************************)
TaskIssues == \E c \in Tasks : TaskIssue(c)
TaskAnswers == \E c \in Tasks : TaskAnswer(c)
TaskWakes == \E c \in Tasks : TaskWake(c)
NextTasks == TaskIssues \/ TaskAnswers \/ TaskWakes \/ TaskCommit
InitTasks ==
    /\ TasksInit /\ BatchParked /\ RunParked
    /\ WriteParked /\ CkParked /\ PageParked /\ SanParked /\ NamesParked
    /\ LateParked
SpecTasks == InitTasks /\ [][NextTasks]_vars
(***************************************************************************)
(* Specification of sanitize_filename                                      *)
(***************************************************************************)
NextSan == SanCall
InitSan ==
    /\ SanInit /\ GetParked /\ BatchParked /\ RunParked /\ WriteParked
    /\ CkParked /\ PageParked /\ TaskParked /\ NamesParked /\ LateParked
SpecSan == InitSan /\ [][NextSan]_vars

(***************************************************************************)
(* Specification of extract_names_from_response                            *)
(***************************************************************************)
NextNames == NamesCall
InitNames ==
    /\ NamesInit /\ GetParked /\ BatchParked /\ RunParked /\ WriteParked
    /\ CkParked /\ PageParked /\ TaskParked /\ SanParked /\ LateParked
SpecNames == InitNames /\ [][NextNames]_vars

(***************************************************************************)
(* Specification of run_batch with the order of settling recorded          *)
(***************************************************************************)
InitOrder ==
    /\ BatchInit /\ GetParked /\ RunParked /\ WriteParked /\ CkParked
    /\ PageParked /\ TaskParked /\ SanParked /\ NamesParked /\ ArchParked
    /\ WalkParked /\ OutParked /\ OrderInit
SpecOrder == InitOrder /\ [][NextBatch]_vars

(***************************************************************************)
(* Specification of archive_post_if_changed                                *)
(***************************************************************************)
NextArch == ArchCall
InitArch ==
    /\ ArchInit /\ GetParked /\ BatchParked /\ RunParked /\ WriteParked
    /\ CkParked /\ PageParked /\ TaskParked /\ SanParked /\ NamesParked
    /\ WalkParked /\ OrderParked /\ OutParked
SpecArch == InitArch /\ [][NextArch]_vars

(***************************************************************************)
(* Specifications of paginate against a finite collection                  *)
(***************************************************************************)
NextWalk == WalkTurn
InitWalk ==
    /\ WalkInit /\ GetParked /\ BatchParked /\ RunParked /\ WriteParked
    /\ CkParked /\ TaskParked /\ SanParked /\ NamesParked /\ ArchParked
    /\ OrderParked /\ OutParked
SpecWalk == InitWalk /\ [][NextWalk]_vars
\* the event loop runs a call that is not waiting: the next page request
\* is issued and answered
FairSpecWalk == SpecWalk /\ WF_vars(WalkTurn)

(***************************************************************************)
(* Specification of the communities and profiles loops over named items    *)
(***************************************************************************)
NextOut == OutFailed \/ OutWritten \/ OutSaved
InitOut ==
    /\ OutInit /\ GetParked /\ BatchParked /\ RunParked /\ WriteParked
    /\ CkParked /\ PageParked /\ TaskParked /\ SanParked /\ NamesParked
    /\ ArchParked /\ WalkParked /\ OrderParked
SpecOut == InitOut /\ [][NextOut]_vars
(***************************************************************************)
(* Properties of AsyncHttpClient.get                                       *)
(***************************************************************************)
IsTransient(ans) ==
    ans.kind = "transport" \/ (ans.kind = "response" /\ ans.status >= 500)
Is4xx(ans) == ans.kind = "response" /\ ans.status >= 400 /\ ans.status < 500
IsMalformed2xx(ans) ==
    /\ ans.kind = "response"
    /\ ans.status >= 200 /\ ans.status < 300
    /\ ans.body \notin JsonBodies
IsGood2xx(ans) ==
    /\ ans.kind = "response"
    /\ ans.status >= 200 /\ ans.status < 300
    /\ ans.body \in JsonBodies
AllTransient(h) == \A n \in 1..Len(h) : IsTransient(h[n])
\* a call has been made and has returned (or raised)
GetSettled == g_calls > 0 /\ g_pc \in {"returned", "idle"}

\* C3: a get call never makes more than max_retries + 1 attempts; a call in
\* which every attempt met a transient fault (5xx or transport error, in any
\* mix) made exactly max_retries + 1 attempts and returned absent.
C3_RetryBudget ==
    /\ Len(g_hist) <= max_retries + 1
    /\ request_count - g_rc0 = Len(g_hist)
    /\ (GetSettled /\ AllTransient(g_hist)) =>
           (Len(g_hist) = max_retries + 1 /\ g_result = "absent")
\* a call exhausted its budget on a mix of 5xx answers and transport errors
C3_Witness ==
    /\ GetSettled /\ AllTransient(g_hist) /\ max_retries >= 1
    /\ \E n1, n2 \in 1..Len(g_hist) :
           g_hist[n1].kind = "transport" /\ g_hist[n2].kind = "response"

\* C4: a 4xx answer is the last attempt of its call, which returns absent
\* with no backoff sleep after it, also when retry budget remains; over one
\* call not_found_count grows by one when that call ended on a 404 or 405
\* and by nothing otherwise.
C4_ClientErrorTerminal ==
    /\ \A n \in 1..Len(g_hist) :
           Is4xx(g_hist[n]) =>
               /\ n = Len(g_hist)
               /\ g_pc \in {"returned", "idle"}
               /\ g_result = "absent"
               /\ g_sleeps = Len(g_hist) - 1
    /\ not_found_count - g_nf0 =
           IF /\ Len(g_hist) > 0
              /\ g_hist[Len(g_hist)].kind = "response"
              /\ g_hist[Len(g_hist)].status \in {404, 405}
           THEN 1 ELSE 0
\* a 403 on a retry attempt with budget left ended the call
C4_Witness ==
    /\ GetSettled /\ Len(g_hist) = 2 /\ max_retries >= 2
    /\ g_hist[2].kind = "response" /\ g_hist[2].status = 403
    /\ g_result = "absent"

\* C5: after k <= max_retries transient faults the call is still going (it
\* makes attempt k), and a parseable 2xx answer on attempt k ends the call
\* with that answer's document after exactly k + 1 attempts.
C5_RecoveryWithinBudget ==
    /\ (g_calls > 0 /\ AllTransient(g_hist) /\ Len(g_hist) <= max_retries) =>
           g_pc \in {"attempt", "sleep"}
    /\ \A k \in 0..max_retries :
           (Len(g_hist) > k /\ IsGood2xx(g_hist[k + 1])) =>
               /\ Len(g_hist) = k + 1
               /\ GetSettled
               /\ g_result = g_hist[k + 1].body
               /\ request_count - g_rc0 = k + 1
\* 500, then a transport error, then 200 with document d2
C5_Witness ==
    /\ GetSettled /\ Len(g_hist) = 3
    /\ g_hist[1].kind = "response" /\ g_hist[1].status = 500
    /\ g_hist[2].kind = "transport"
    /\ IsGood2xx(g_hist[3]) /\ g_result = "d2"

RECURSIVE IssuedUpTo(_)
IssuedUpTo(n) == IF n = 0 THEN 0 ELSE t_issued[n] + IssuedUpTo(n - 1)
TotalIssued == IssuedUpTo(MaxTasks)

\* C28: request_count of a client instance grows by exactly one with every
\* attempt, retries included, and never decreases, so it equals the number
\* of attempts issued by all get calls on the instance, also while several
\* calls of one batch are in flight; not_found_count never exceeds it.
C28_RequestCounter ==
    /\ [](t_pc[1] # "parked" =>
             /\ request_count = TotalIssued
             /\ not_found_count <= request_count)
    /\ [][/\ request_count' >= request_count
          /\ \A c \in Tasks :
                 t_issued'[c] # t_issued[c] =>
                     /\ t_issued'[c] = t_issued[c] + 1
                     /\ request_count' = request_count + 1
          /\ request_count' # request_count =>
                 \E c \in Tasks : t_issued'[c] # t_issued[c]]_vars
\* two calls are in flight at once, one of them on its second attempt,
\* and the counter stands at three
C28_Witness ==
    /\ t_pc[1] = "request" /\ t_pc[2] = "request"
    /\ t_issued[1] = 2 /\ t_issued[2] = 1
    /\ request_count = 3

\* gather has returned: every get call of the batch has; a fetch is
\* running while its call stands at one of its awaits
PostAwait == \A c \in Tasks : t_pc[c] = "returned"
AtAwait(c) == t_pc[c] \in {"request", "sleep"}
\* the step is taken by call c alone: no other call moves
StepOf(c) == \A o \in Tasks \ {c} : t_pc'[o] = t_pc[o]

\* C33 as stated: request_count, not_found_count and the done set of the
\* CheckpointState change only in the completion phase that follows the
\* await of the batch, never from within a fetch of the batch.
C33_Original ==
    [][(\/ request_count' # request_count
        \/ not_found_count' # not_found_count
        \/ t_done' # t_done) => PostAwait]_vars
\* C33: the done set of the CheckpointState changes only in the completion
\* phase that follows the await of a batch.  The two counters of the Fetch
\* Client are changed by the get calls themselves, while other calls of
\* the batch are in flight, and never in the completion phase: each change
\* adds one in a single step of one call (request_count when the call
\* issues an attempt, not_found_count when its request is answered 404 or
\* 405), so request_count is the number of attempts issued and
\* not_found_count the number of calls that returned on a 404 or 405.
C33_MutationPoints ==
    /\ [][/\ t_done' # t_done => PostAwait
          /\ request_count' # request_count =>
                 /\ ~PostAwait
                 /\ request_count' = request_count + 1
                 /\ \E c \in Tasks :
                        t_pc[c] = "loop" /\ t_pc'[c] = "request" /\ StepOf(c)
          /\ not_found_count' # not_found_count =>
                 /\ ~PostAwait
                 /\ not_found_count' = not_found_count + 1
                 /\ \E c \in Tasks :
                        /\ t_pc[c] = "request" /\ t_pc'[c] = "returned"
                        /\ t_ret'[c] = "not_found" /\ StepOf(c)]_vars
    /\ [](t_pc[1] # "parked" =>
             /\ request_count = TotalIssued
             /\ not_found_count = Cardinality({c \in Tasks : t_ret[c] = "not_found"}))
\* call 1 has returned on a 404, which not_found_count shows, while call 2
\* waits for its second attempt to be answered; nothing is marked done
C33_Witness ==
    /\ t_pc[1] = "returned" /\ t_ret[1] = "not_found" /\ not_found_count = 1
    /\ AtAwait(2) /\ t_issued[2] = 2 /\ request_count = 3
    /\ t_done = {}
(***************************************************************************)
(* Properties of run_batch                                                 *)
(***************************************************************************)
\* positions of job.items whose fetch settled to kind k
PositionsOf(kinds) == {p \in 1..Len(items) : b_outcomes[p].kind \in kinds}
\* where in the step log position p took step s
LogIdx(s, p) == {n \in 1..Len(b_log) : b_log[n].step = s /\ b_log[n].pos = p}

\* C8: when run_batch returns, every element of job.items has been
\* classified exactly once: completed counts the fetches that returned a
\* document, failed those that returned absent or raised, and the two add up
\* to len(job.items).
C8_ClassifiesEachOnce ==
    b_pc = "done" =>
        /\ completed = Cardinality(PositionsOf({"doc"}))
        /\ failed = Cardinality(PositionsOf({"absent", "raised"}))
        /\ completed + failed = Len(items)
        /\ \A p \in 1..Len(items) :
               Cardinality(LogIdx("failed", p) \cup LogIdx("count", p)) = 1
\* three items, all fetched: completed == 3, failed == 0
C8_Witness ==
    /\ b_pc = "done" /\ Len(items) = 3
    /\ completed = 3 /\ failed = 0
    /\ PositionsOf({"doc"}) = {1, 2, 3}

\* C9: on the success path of one item the file is written first, then the
\* item is marked done, then on_result (when given) is called once with the
\* item and its document, then completed is incremented; on_result is never
\* called for an item whose fetch returned absent or raised.
C9_SuccessPathOrder ==
    /\ \A p \in 1..Len(items) :
        /\ \A s \in {"write", "mark_done", "on_result", "count"} :
               Cardinality(LogIdx(s, p)) <= 1
        /\ LogIdx("on_result", p) # {} =>
               (on_result /\ b_outcomes[p].kind = "doc")
        /\ LogIdx("write", p) # {} =>
               files[FilenameFn(items[p])] = Doc(items[p])
        /\ \A n \in LogIdx("mark_done", p) :
               n > 1 /\ b_log[n - 1].pos = p /\ b_log[n - 1].step = "write"
        /\ \A n \in LogIdx("on_result", p) :
               /\ n > 1 /\ b_log[n - 1].pos = p /\ b_log[n - 1].step = "mark_done"
               /\ items[p] \in phases[state_phase]
        /\ \A n \in LogIdx("count", p) :
               /\ n > 1 /\ b_log[n - 1].pos = p
               /\ b_log[n - 1].step = IF on_result THEN "on_result" ELSE "mark_done"
        /\ (b_pc = "done" /\ b_outcomes[p].kind = "doc") =>
               /\ LogIdx("count", p) # {}
               /\ on_result => LogIdx("on_result", p) # {}
    /\ Len(collected) =
           Cardinality({n \in 1..Len(b_log) : b_log[n].step = "on_result"})
    /\ \A n \in 1..Len(collected) : collected[n][2] = Doc(collected[n][1])
\* a returned call with a callback: one item saved and reported, one failed
C9_Witness ==
    /\ b_pc = "done" /\ on_result /\ Len(items) = 2
    /\ b_outcomes[1].kind = "absent" /\ b_outcomes[2].kind = "doc"
    /\ collected = <<<<items[2], Doc(items[2])>>>>

\* C10: processing an item whose fetch returned absent increments failed and
\* changes nothing else: no file, no temporary file, no mark in any phase,
\* no callback, no checkpoint write, completed unchanged.
C10_AbsentLeavesNoTrace ==
    [][(b_pc = "item" /\ j <= Len(batch) /\ results[j] = Absent) =>
           /\ failed' = failed + 1
           /\ j' = j + 1
           /\ b_pc' = "item"
           /\ UNCHANGED <<files, phases, completed, collected, ckpt, ckpt_tmp>>]_vars
\* items ["good", "bad"]: one saved, the absent one counted and without file
C10_Witness ==
    /\ b_pc = "done" /\ Len(items) = 2 /\ items[1] # items[2]
    /\ b_outcomes[1].kind = "doc" /\ b_outcomes[2] = Absent
    /\ completed = 1 /\ failed = 1
    /\ files[FilenameFn(items[2])] = NoFile
    /\ items[2] \notin phases[state_phase]


\* C11: an exception raised by the fetch of one item is caught: the item is
\* counted as failed and the exception does not leave run_batch; every other
\* item of the same batch and of the later batches is still fetched, and
\* saved and marked done when its fetch returned a document.
C11_FetchExceptionIsolated ==
    /\ [](b_pc = "done" =>
            \A p \in 1..Len(items) :
                /\ b_outcomes[p] # Unsettled
                /\ b_outcomes[p] = Raised =>
                       /\ Cardinality(LogIdx("failed", p)) = 1
                       /\ LogIdx("write", p) \cup LogIdx("mark_done", p)
                              \cup LogIdx("count", p) = {}
                /\ b_outcomes[p].kind = "doc" =>
                       /\ files[FilenameFn(items[p])] = Doc(items[p])
                       /\ items[p] \in phases[state_phase])
    /\ [][(b_pc = "item" /\ j <= Len(batch) /\ results[j] = Raised) =>
              /\ failed' = failed + 1
              /\ j' = j + 1
              /\ b_pc' = "item"]_vars
\* the first of three fetches raised; its batch neighbour and the item of
\* the next batch were saved and marked done
C11_Witness ==
    /\ b_pc = "done" /\ Len(items) = 3 /\ batch_size = 2
    /\ b_outcomes[1] = Raised
    /\ b_outcomes[2].kind = "doc" /\ b_outcomes[3].kind = "doc"
    /\ items[1] \notin {items[2], items[3]}
    /\ completed = 2 /\ failed = 1
    /\ files[FilenameFn(items[1])] = NoFile
    /\ {items[2], items[3]} \subseteq phases[state_phase]

\* positions of job.items whose fetch has been started, and those in flight
Started ==
    1..Min(Len(items), IF b_pc = "loop" THEN i ELSE i + Len(batch))
InFlight == {i + k : k \in pending}
\* the batch a position belongs to
BatchNo(p) == (p - 1) \div batch_size

\* C12: the items are cut into consecutive batches of batch_size; the
\* fetches of a batch run together, never more than batch_size in flight; no
\* fetch of the next batch starts before every fetch of this one has settled;
\* no result of a batch is processed before all its fetches have settled.
C12_FanOutFanIn ==
    /\ Cardinality(InFlight) <= batch_size
    /\ InFlight \subseteq Started \cap ((i + 1)..(i + batch_size))
    /\ pending # {} => b_pc = "gather"
    /\ b_pc = "gather" =>
           /\ i % batch_size = 0
           /\ i < Len(items)
           /\ batch = SubSeq(items, i + 1, Min(i + batch_size, Len(items)))
    /\ \A p \in 1..Len(items) :
           /\ b_outcomes[p] # Unsettled => p \in Started
           /\ p \in Started \ InFlight => b_outcomes[p] # Unsettled
           /\ p \in InFlight => b_outcomes[p] = Unsettled
    /\ \A n \in 1..Len(b_log) : \A q \in 1..Len(items) :
           BatchNo(q) = BatchNo(b_log[n].pos) => b_outcomes[q] # Unsettled
\* two fetches in flight at once; the third item's fetch not yet started
C12_Witness ==
    /\ b_pc = "gather" /\ Len(items) = 3 /\ batch_size = 2
    /\ i = 0 /\ InFlight = {1, 2}
    /\ Started = {1, 2}

\* C13: with a checkpoint path the state is saved after the last batch and
\* before run_batch returns, also for an empty work list and when every item
\* failed, and the saved checkpoint holds every item marked done; without a
\* path run_batch never writes a checkpoint.
C13_FinalCheckpoint ==
    /\ (b_pc = "done" /\ checkpoint_path) =>
           /\ b_saves >= 1
           /\ ckpt = Snapshot(phases)
           /\ ckpt_tmp = NoCkpt
           /\ \A p \in PositionsOf({"doc"}) : items[p] \in ckpt.phases[state_phase]
    /\ ~checkpoint_path =>
           (ckpt = NoCkpt /\ ckpt_tmp = NoCkpt /\ b_saves = 0
            /\ b_pc \notin {"save_tmp", "save_rename"})
\* interval 2, batches of one: the third item is marked done after the only
\* periodic save, and the checkpoint of the returned call holds it
C13_Witness ==
    /\ b_pc = "done" /\ checkpoint_path
    /\ Len(items) = 3 /\ batch_size = 1 /\ checkpoint_interval = 2
    /\ completed = 3 /\ b_saves = 2
    /\ items[3] \notin {items[1], items[2]}
    /\ items[3] \in ckpt.phases[state_phase]

\* completed when the current batch started
CompletedBefore ==
    Cardinality({n \in 1..Len(b_log) : b_log[n].step = "count" /\ b_log[n].pos <= i})
\* completed passed a multiple of checkpoint_interval during the current batch
Crossed ==
    \E m \in (CompletedBefore + 1)..completed : m % checkpoint_interval = 0

\* C14: with a checkpoint path, when completed crosses a multiple of
\* checkpoint_interval during a batch, the state is saved after that batch
\* and before the next batch starts; no crossing is missed.
C14_PeriodicCheckpoint ==
    (b_pc = "delay" /\ checkpoint_path /\ Crossed) =>
        /\ ckpt = Snapshot(phases)
        /\ ckpt_tmp = NoCkpt
        /\ b_saves >= 1
\* batches of two, interval 2, one failure in the first batch: completed
\* goes from 1 to 2 in the second batch and the state is saved after it
C14_Witness ==
    /\ b_pc = "delay" /\ checkpoint_path
    /\ batch_size = 2 /\ checkpoint_interval = 2 /\ Len(items) = 3
    /\ i = 2 /\ failed = 1 /\ CompletedBefore = 1 /\ completed = 2
    /\ ckpt = Snapshot(phases)
    /\ items[3] \in ckpt.phases[state_phase]


\* identifiers of job.items whose fetch has settled / has returned a
\* document so far in this call
AttemptedIds ==
    {items[p] : p \in {q \in 1..Len(items) : b_outcomes[q] # Unsettled}}
DocIds == {items[p] : p \in {q \in 1..Len(items) : b_outcomes[q].kind = "doc"}}

\* C27: one call of run_batch adds to phases[job.state_phase] only
\* identifiers of job.items whose fetch returned a document in that call,
\* removes no identifier from any phase, and leaves every other phase's set
\* as it was; hence phases[job.state_phase] stays within the identifiers
\* attempted so far.
C27_DoneSetFrame ==
    /\ [][\A p \in PhaseNames :
             /\ phases[p] \subseteq phases'[p]
             /\ p # state_phase => phases'[p] = phases[p]
             /\ phases'[state_phase] \ phases[state_phase] \subseteq DocIds]_vars
    /\ [](b_pc # "parked" =>
             /\ phases[state_phase] \subseteq AttemptedIds
             /\ phases[state_phase] \subseteq DocIds
             /\ phases["other"] = {"a"})
\* a finished call over three items: the first was marked done and stayed
\* so when the third was marked; the second, whose fetch returned nothing,
\* added nothing when it was processed; the other phase is as handed in
C27_Witness ==
    /\ b_pc = "done" /\ Len(items) = 3
    /\ b_outcomes[1].kind = "doc" /\ b_outcomes[2] = Absent
    /\ b_outcomes[3].kind = "doc"
    /\ items[1] # items[3] /\ items[2] = items[3]
    /\ phases[state_phase] = {items[1], items[3]}
    /\ phases["other"] = {"a"}


\* run_batch is over: it returned its counts, or an exception left it
BatchOver == b_pc \in {"done", "raised"}
\* every item of job.items had its fetch settled
AllProcessed == PositionsOf({"unsettled"}) = {}

\* C34: no error raised while an item is processed (by its fetch, by the
\* write of its file, by on_result) aborts the batch or the run: run_batch
\* ends by returning its counts, with every item processed and, given a
\* checkpoint path, the final checkpoint saved.
C34_NoErrorAborts ==
    BatchOver =>
        /\ b_pc = "done"
        /\ AllProcessed
        /\ completed + failed = Len(items)
        /\ checkpoint_path => ckpt = Snapshot(phases)
\* on_result raised for the first item: run_batch is left with the item
\* marked done in memory, no checkpoint written and later items not fetched
C34_Witness ==
    /\ b_pc = "raised"
    /\ on_result /\ checkpoint_path
    /\ b_outcomes[1].kind = "doc" /\ items[1] \in phases[state_phase]
    /\ ~AllProcessed
    /\ ckpt = NoCkpt
    /\ completed = 0 /\ failed = 0
\* what the code does give: errors of the fetches do not abort, so a call
\* in which no file write and no callback raised returns with every item
\* processed, counted as completed or failed
C34_FetchErrorsContained ==
    b_pc # "raised" =>
        (b_pc = "done" =>
            /\ AllProcessed
            /\ completed + failed = Len(items)
            /\ checkpoint_path => ckpt = Snapshot(phases))

\* the (item, document) pairs of the fetches that returned a document, in
\* the order of job.items, up to position n
RECURSIVE ReturnedPairs(_)
ReturnedPairs(n) ==
    IF n = 0 THEN <<>>
    ELSE IF b_outcomes[n].kind = "doc"
         THEN Append(ReturnedPairs(n - 1), <<items[n], b_outcomes[n]>>)
         ELSE ReturnedPairs(n - 1)
\* the items whose own fetch, at some position, returned exactly document d
FetchedAs(d) == {items[p] : p \in {q \in 1..Len(items) : b_outcomes[q] = d}}

\* C37: the document written to filename_fn(X), marked done as X and passed
\* to on_result for X is the one the fetch started for X returned, whatever
\* the order in which the fetches of a batch settle; items are committed in
\* the order of job.items, so what run_batch leaves behind (files, done set,
\* callback calls) is a function of the outcomes by position alone.
C37_ResultBinding ==
    /\ \A x \in ItemIds :
        /\ files[FilenameFn(x)] # NoFile =>
               (files[FilenameFn(x)] = Doc(x) /\ x \in FetchedAs(Doc(x)))
        /\ files[TmpPath(FilenameFn(x))] # NoFile =>
               (files[TmpPath(FilenameFn(x))] = Doc(x) /\ x \in FetchedAs(Doc(x)))
        /\ x \in phases[state_phase] => x \in FetchedAs(Doc(x))
    /\ \A n \in 1..Len(collected) :
           \E p \in 1..Len(items) :
               collected[n] = <<items[p], b_outcomes[p]>>
    /\ \A n \in 1..(Len(b_log) - 1) : b_log[n].pos <= b_log[n + 1].pos
    /\ b_pc = "done" =>
        /\ phases[state_phase] = {items[p] : p \in PositionsOf({"doc"})}
        /\ \A x \in ItemIds :
               files[FilenameFn(x)] =
                   IF x \in FetchedAs(Doc(x)) THEN Doc(x) ELSE NoFile
        /\ on_result => collected = ReturnedPairs(Len(items))
\* a batch of two different items whose second fetch settled before the
\* first: each file holds its own item's document, reported in list order
C37_Witness ==
    /\ b_pc = "done" /\ b_overtook = "yes" /\ on_result
    /\ Len(items) = 2 /\ items[1] # items[2]
    /\ files[FilenameFn(items[1])] = Doc(items[1])
    /\ files[FilenameFn(items[2])] = Doc(items[2])
    /\ collected = <<<<items[1], Doc(items[1])>>, <<items[2], Doc(items[2])>>>>
    /\ phases[state_phase] = {items[1], items[2]}
(***************************************************************************)
(* Properties of atomic_write                                              *)
(***************************************************************************)
\* what a reader of path finds is the previous or the new content, whole
ReaderSeesWhole == w_fs[w_path] \in {w_prev, w_content}
\* the call returned, path holds content and the temporary file is gone
ReturnedClean ==
    /\ w_fs[w_path] = w_content
    /\ TmpPath(w_path) # w_path => w_fs[TmpPath(w_path)] = NoText

\* C15: for atomic_write(path, content) a reader of path at any moment, also
\* after a kill at any step of the write, sees the complete previous content
\* or the complete new content, never a partial file; after the call returns
\* path holds exactly content and no temporary file remains.
C15_AtomicReplace ==
    /\ w_pc # "parked" => ReaderSeesWhole
    /\ w_pc = "returned" => ReturnedClean
\* killed inside write_text with path itself named *.tmp: the reader of path
\* finds the beginning of the new text
C15_Witness ==
    /\ w_pc = "killed" /\ w_path.suffix = "tmp"
    /\ w_prev = "c1" /\ w_fs[w_path] = PartialText
\* C15, for every path whose suffix is not ".tmp": the statement above holds.
C15_AtomicOffTmp ==
    (w_pc # "parked" /\ w_path.suffix # "tmp") =>
        /\ ReaderSeesWhole
        /\ w_pc = "returned" => ReturnedClean

(***************************************************************************)
(* Properties of DownloadState.save and DownloadState.load                 *)
(***************************************************************************)
\* a value json writes and reads back unchanged: strings, numbers, null,
\* lists of such values, dicts with string keys and such values
RECURSIVE JsonNative(_)
JsonNative(x) ==
    CASE x.t \in {"str", "int", "none"} -> TRUE
      [] x.t = "list" -> \A n \in 1..Len(x.v) : JsonNative(x.v[n])
      [] x.t = "dict" -> \A kv \in x.v : kv[1].t = "str" /\ JsonNative(kv[2])
      [] OTHER -> FALSE
\* load of the saved file returned a state with the phases and discovered
\* names of the saved state
SetsRoundTrip ==
    /\ k_out.kind = "state"
    /\ k_out.state.phases = k_state.phases
    /\ k_out.state.discovered = k_state.discovered

C17_LoadNeverRaises ==
    k_pc \in {"loaded", "reloaded"} =>
        /\ k_out.kind = "state"
        /\ k_file.kind # "json" => k_out.state = NewState
\* the file holds the JSON text `[]`: load raised AttributeError
C17_Witness ==
    /\ k_pc = "loaded" /\ k_file = JsonFile(PyList(<<>>))
    /\ k_out.kind = "raised" /\ k_out.exc = "AttributeError"
\* C17, the part that holds: an absent file, an unreadable one and text that
\* is no JSON give the empty state; so does nothing else.
C17_EmptyOnUnparseable ==
    (k_pc = "loaded" /\ k_file.kind \in {"absent", "unreadable", "garbage"}) =>
        k_out = Returns(NewState)

\* the entries of the list under key in the old-layout file
ListedUnder(key) ==
    LET l == GetKey(k_file.doc, key, PyList(<<>>)).v
    IN {l[n] : n \in 1..Len(l)}
OldLayout == k_file.kind = "json" /\ k_file.doc \in LegacyDocs

\* C18: loading a checkpoint in the old flat layout gives phases posts,
\* submolts and agents and discovered agent_names and submolt_names as the
\* sets of the entries of the five lists (repeated entries once), the same
\* last_checkpoint, and extra["post_comment_counts"] = post_comment_counts.
C18_LegacyUpgrade ==
    (k_pc = "loaded" /\ OldLayout) =>
        /\ k_out.kind = "state"
        /\ DOMAIN k_out.state.phases = {"posts", "submolts", "agents"}
        /\ k_out.state.phases["posts"] = ListedUnder("posts_with_details")
        /\ k_out.state.phases["submolts"] = ListedUnder("submolts_fetched")
        /\ k_out.state.phases["agents"] = ListedUnder("agents_fetched")
        /\ DOMAIN k_out.state.discovered = {"agent_names", "submolt_names"}
        /\ k_out.state.discovered["agent_names"] = ListedUnder("agent_names_discovered")
        /\ k_out.state.discovered["submolt_names"] =
               ListedUnder("submolt_names_discovered")
        /\ k_out.state.last_checkpoint = GetKey(k_file.doc, "last_checkpoint", PyNone)
        /\ k_out.state.extra =
               PyDict({<<PyStr("post_comment_counts"),
                         GetKey(k_file.doc, "post_comment_counts", PyNone)>>})
\* posts_with_details = [p1, p2, p1] became the set {p1, p2}, with counts
C18_Witness ==
    /\ k_pc = "loaded" /\ OldLayout
    /\ GetKey(k_file.doc, "posts_with_details", PyNone) =
           PyList(<<PyStr("p1"), PyStr("p2"), PyStr("p1")>>)
    /\ GetKey(k_file.doc, "post_comment_counts", PyNone) =
           PyDict({<<PyStr("p1"), PyInt(5)>>})
    /\ k_out.kind = "state"
    /\ k_out.state.phases["posts"] = IdVals
    /\ k_out.state.last_checkpoint = PyStr("t0")

(***************************************************************************)
(* Properties of paginate                                                  *)
(***************************************************************************)
\* the arrays of a sequence of pages, one after the other
RECURSIVE Flatten(_)
Flatten(pages) ==
    IF pages = <<>> THEN <<>> ELSE Head(pages) \o Flatten(Tail(pages))
\* the four answers the claim names
PageAbsent == p_last.kind = "absent"
PageUnsuccessful == p_last.kind = "object" /\ p_last.success # "true"
PageEmpty == p_last.kind = "object" /\ p_last.success = "true" /\ p_last.items = <<>>
PageFinal ==
    /\ p_last.kind = "object" /\ p_last.success = "true"
    /\ p_last.items # <<>> /\ p_last.has_more # "true"

\* C19: paginate stops, issues no further page request and returns what it
\* has accumulated, without raising, as soon as a page request returns
\* absent, or the page's success flag is false, or its items array is empty
\* (also when has_more is true), or has_more is false after the page's items
\* were accumulated (these items are in the result).
C19_StopRule ==
    /\ []((PageAbsent \/ PageUnsuccessful \/ PageEmpty \/ PageFinal) =>
            /\ p_pc = "returned"
            /\ p_items = Flatten(p_accepted)
            /\ Len(p_accepted) = IF PageFinal THEN Len(p_reqs) ELSE Len(p_reqs) - 1
            /\ PageFinal => p_accepted[Len(p_accepted)] = p_last.items)
    /\ [][p_pc \notin {"returned", "raised"}]_vars
\* after one accepted page, an empty page that says has_more: the call
\* returned the first page's items
C19_Witness ==
    /\ p_pc = "returned" /\ Len(p_reqs) = 2
    /\ PageEmpty /\ p_last.has_more = "true"
    /\ Len(p_accepted) = 1 /\ p_items = p_accepted[1]

\* C20: the list paginate returns is the concatenation, in request order, of
\* the items arrays of the accepted pages, each in its own order; nothing is
\* dropped, reordered or deduplicated.
C20_ResultOrder ==
    /\ p_items = Flatten(p_accepted)
    /\ Len(p_items) >= Len(p_accepted)
    /\ p_pc = "returned" => Len(p_accepted) \in {Len(p_reqs) - 1, Len(p_reqs)}
\* pages [a, b] then [a], has_more true then false: the result is [a, b, a]
C20_Witness ==
    /\ p_pc = "returned"
    /\ p_accepted = <<<<"a", "b">>, <<"a">>>>
    /\ p_last.has_more = "false"
    /\ p_items = <<"a", "b", "a">>

\* C30: the first page request of paginate uses offset 0; after an accepted
\* page with has_more true the next request uses the next_offset the
\* response declares, or, when it declares none, the previous offset plus
\* the number of items of that page; every request carries the caller's
\* params together with that offset and limit = page size.
C30_OffsetAdvance ==
    [][LET req == p_reqs'[Len(p_reqs')]
           before == p_reqs[Len(p_reqs)]
       IN  /\ Len(p_reqs') = Len(p_reqs) + 1
           /\ p_reqs = <<>> => req["offset"] = 0
           /\ p_reqs # <<>> =>
                  /\ p_last.success = "true" /\ p_last.has_more = "true"
                  /\ p_last.items # <<>>
                  /\ req["offset"] =
                         IF p_last.next_offset # NoNextOffset
                           THEN p_last.next_offset
                           ELSE before["offset"] + Len(p_last.items)
           /\ req["limit"] = p_args.limit
           /\ DOMAIN req = DOMAIN p_args.params \cup {"offset", "limit"}
           /\ \A k \in DOMAIN p_args.params \ {"offset", "limit"} :
                  req[k] = p_args.params[k]]_vars
\* the first page of one item declared next_offset 2: the second request
\* went out with offset 2, the caller's sort parameter and the limit
C30_Witness ==
    /\ Len(p_reqs) = 2 /\ Len(p_accepted[1]) = 1
    /\ p_args.params = SortedParams
    /\ p_reqs[1] = [sort |-> 1, offset |-> 0, limit |-> 2]
    /\ p_reqs[2] = [sort |-> 1, offset |-> 2, limit |-> 2]
\* the first page of two items declared no next_offset: the second request
\* went out with offset 2, although the caller's params held an offset
C30_WitnessFallback ==
    /\ Len(p_reqs) = 2 /\ Len(p_accepted[1]) = 2
    /\ p_args.params = ClashingParams
    /\ p_reqs[2] = [sort |-> 7, offset |-> 2, limit |-> 1]


\* the offsets of the page requests recorded for the call
OffsetsSent == [k \in 1..Len(p_reqs) |-> p_reqs[k]["offset"]]
Increasing(q) == \A k \in 1..(Len(q) - 1) : q[k + 1] > q[k]

\* C36: every call of paginate against a finite collection ends after
\* finitely many page requests, whatever next_offset the service declares,
\* and each page request of a call uses a larger offset than the one
\* before.
C36_PaginatorTermination ==
    /\ <>(p_pc \in {"returned", "raised"})
    /\ [][p_pc' = "request" => p_offset' > p_offset]_vars
\* a collection of two entries served one a page, each page declaring
\* next_offset 0: every request recorded went out with offset 0, the call
\* is about to send the next, and all_items holds more entries than the
\* collection has
C36_Witness ==
    /\ p_pc = "request"
    /\ Len(p_coll) = 2 /\ p_args.limit = 1
    /\ Len(p_reqs) = WalkCap
    /\ \A k \in 1..Len(p_reqs) : OffsetsSent[k] = 0
    /\ p_offset = 0
    /\ Len(p_items) > Len(p_coll)
\* what the code does give: while every request used a larger offset than
\* the one before, a call over n entries has sent n + 1 requests at most
C36_BoundedWhileGrowing ==
    Increasing(OffsetsSent) => Len(p_reqs) <= Len(p_coll) + 1
(***************************************************************************)
(* Properties of sanitize_filename                                         *)
(***************************************************************************)
\* C29: sanitize_filename(s) is as long as s; at every position the output
\* character is '_' exactly when the input character is one of
\* < > : " / \ | ? * or is '_' itself, and every other character, '.' and
\* '-' among them, is passed through unchanged.
C29_Sanitizer ==
    n_pc = "returned" =>
        /\ Len(n_out) = Len(n_name)
        /\ \A k \in 1..Len(n_name) :
               /\ n_out[k] = "_" <=>
                      n_name[k] \in {"<", ">", ":", "\"", "/", "\\", "|", "?", "*", "_"}
               /\ n_out[k] # "_" => n_out[k] = n_name[k]
\* a name with a dot next to a slash came back with the dot kept and the
\* slash replaced
C29_Witness ==
    /\ n_pc = "returned"
    /\ n_name = <<".", "/">>
    /\ n_out = <<".", "_">>

(***************************************************************************)
(* Properties of extract_names_from_response                               *)
(***************************************************************************)
\* the non-empty name an object carries under key k1, else under k2
ResolvedName(obj, k1, k2) ==
    LET At(k) == IF obj.t = "dict" /\ HasKey(obj, k) THEN GetKey(obj, k, PyNone)
                 ELSE PyNone
        Name(k) == IF At(k).t = "str" /\ At(k).v # "" THEN {At(k).v} ELSE {}
    IN IF Name(k1) # {} THEN Name(k1) ELSE Name(k2)
Field(obj, k) == IF obj.t = "dict" THEN GetKey(obj, k, PyNone) ELSE PyNone
\* the names of the authors of the comments of a list, replies included
RECURSIVE AuthorsUnder(_)
AuthorsUnder(comments) ==
    IF comments.t # "list" THEN {}
    ELSE UNION {ResolvedName(Field(comments.v[n], "author"), "name", "username")
                    \cup AuthorsUnder(Field(comments.v[n], "replies")) :
                n \in 1..Len(comments.v)}
ReferencedAgents(data) ==
    ResolvedName(Field(Field(data, "post"), "author"), "name", "username")
        \cup AuthorsUnder(Field(data, "comments"))
ReferencedSubmolts(data) ==
    ResolvedName(Field(Field(data, "post"), "submolt"), "name", "slug")
        \cup ResolvedName(Field(data, "submolt"), "name", "slug")

\* C25: after extract_names_from_response(doc, state) has returned,
\* discovered['agent_names'] holds the resolved non-empty name (name, else
\* username) of the post's author and of the author of every comment at
\* every depth of replies, and discovered['submolt_names'] holds the
\* resolved name (name, else slug) of the community the document refers
\* to; a call removes no name, so discovered stays a superset of the names
\* of the documents processed so far.
C25_DiscoveryInvariant ==
    /\ [](x_pc = "returned" =>
             /\ ReferencedAgents(x_data) \subseteq x_disc.agent_names
             /\ ReferencedSubmolts(x_data) \subseteq x_disc.submolt_names)
    /\ [][/\ x_disc.agent_names \subseteq x_disc'.agent_names
          /\ x_disc.submolt_names \subseteq x_disc'.submolt_names]_vars
\* a comment by a1 with a reply whose author has a username only, and a
\* second comment by a3: all three are discovered next to the earlier name
C25_Witness ==
    /\ x_pc = "returned"
    /\ x_data =
         MkDict({<<"post", PyDict({})>>,
                 <<"comments",
                   PyList(<<MkDict({<<"author", MkDict({<<"name", PyStr("a1")>>})>>,
                                    <<"replies",
                                      PyList(<<MkDict({<<"author",
                                          MkDict({<<"username", PyStr("a2")>>})>>})>>)>>}),
                            MkDict({<<"author", MkDict({<<"name", PyStr("a3")>>})>>})>>)>>})
    /\ x_disc.agent_names = {"a0", "a1", "a2", "a3"}

\* C26: extract_names_from_response never raises, whichever of the fields
\* post, post.author, post.submolt, comments, a comment, a comment's author,
\* replies, agent or submolt is absent, null or of an unexpected shape.
C26_NeverRaises == x_pc # "raised"
\* the document {"post": null}: post.get raises AttributeError
C26_Witness ==
    /\ x_pc = "raised"
    /\ x_data = MkDict({<<"post", PyNone>>})
\* what the guards do cover: a document whose post is a dict (or absent),
\* whose comments and replies are lists of dicts (or false values) and
\* whose agent is a dict or a false value yields no exception, whatever
\* the authors and communities in it are
WellShaped(data) ==
    LET Lists(c) == c.t = "list" \/ ~Truthy(c)
        RECURSIVE Dicts(_)
        Dicts(c) ==
            c.t = "list" =>
                \A n \in 1..Len(c.v) :
                    /\ c.v[n].t = "dict"
                    /\ Lists(GetKey(c.v[n], "replies", PyList(<<>>)))
                    /\ Dicts(GetKey(c.v[n], "replies", PyList(<<>>)))
        agent == GetKey(data, "agent", PyDict({}))
        comments == GetKey(data, "comments", PyList(<<>>))
    IN /\ GetKey(data, "post", PyDict({})).t = "dict"
       /\ Lists(comments) /\ Dicts(comments)
       /\ agent.t = "dict" \/ ~Truthy(agent)
C26_GuardedFields == WellShaped(x_data) => x_pc # "raised"
(***************************************************************************)
(* Properties of archive_post_if_changed                                   *)
(***************************************************************************)
\* a previous file exists and parses
Readable(f) == f # NoSuchFile /\ f # NotJson
\* the number of top-level comments of a document, none when it has no list
CommentsIn(d) == IF HasKey(d, "comments") THEN Len(GetKey(d, "comments", PyNone).v) ELSE 0
\* the field k of the document's post, null when the post or the field is absent
PostField(d, k) ==
    IF HasKey(d, "post") THEN GetKey(GetKey(d, "post", PyNone), k, PyNone) ELSE PyNone
\* the stored and the new document differ in comments, content or title
Differs(old, new) ==
    \/ CommentsIn(old) # CommentsIn(new)
    \/ PostField(old, "content") # PostField(new, "content")
    \/ PostField(old, "title") # PostField(new, "title")

\* C32: archive_post_if_changed returns True exactly when a readable
\* previous file exists and the number of top-level comments, the post
\* content or the post title differs between the stored and the new
\* document; then the stored document is a file of the archive directory,
\* whose other files are as before; in every other case (no previous file,
\* unreadable previous file, no difference) it returns False and the
\* archive directory is as it was.
C32_ChangeDecision ==
    a_pc = "returned" =>
        /\ a_ret <=> (Readable(a_file) /\ Differs(a_file, a_new))
        /\ a_ret => \E f \in a_archive :
                        f[2] = a_file /\ a_archive \ {f} \subseteq a_arch0
        /\ ~a_ret => a_archive = a_arch0
\* only the title differs between the stored and the new document: True
\* was returned and the stored document is in the archive, next to the
\* earlier version
C32_Witness ==
    /\ a_pc = "returned" /\ a_ret
    /\ Readable(a_file)
    /\ CommentsIn(a_file) = CommentsIn(a_new) /\ CommentsIn(a_new) > 0
    /\ PostField(a_file, "content") = PostField(a_new, "content")
    /\ PostField(a_file, "title") # PostField(a_new, "title")
    /\ \E f \in a_archive : f[2] = a_file
    /\ a_arch0 # {} /\ a_arch0 \subseteq a_archive
(***************************************************************************)
(* Properties of download_moltbook                                         *)
(***************************************************************************)
\* A run under fair scheduling: a run that is not killed takes its next step.
FairSpecRun == SpecRun /\ WF_vars(RunStep)

\* The current run was started with resume=True after a killed run, and the
\* service has answered every request of it successfully so far.
ResumedAfterKill == resume /\ r_before = "killed" /\ all_ok
Running == r_pc \notin {"idle", "parked", "finish"}

\* The names the stored document of post p carries.
StoredNames(p) ==
    LET f == d_files[ItemPath("posts", p)]
    IN IF f.kind = "doc" THEN DocAgentNames("posts", f) ELSE {}

\* Everything the service shows is marked done in checkpoint.json.
AllDoneOnDisk ==
    /\ d_ckpt.exists
    /\ \A k \in DOMAIN Feed :
         /\ Feed[k] \in d_ckpt.state.posts
         /\ PostSubmolt(Feed[k]) \in d_ckpt.state.submolts
         /\ PostAuthor(Feed[k]) \in d_ckpt.state.agents
         /\ StoredNames(Feed[k]) \subseteq d_ckpt.state.agents
    /\ \A k \in DOMAIN ListedSubmolts : ListedSubmolts[k] \in d_ckpt.state.submolts
    /\ state.submolt_names \cup d_ckpt.state.submolt_names \subseteq d_ckpt.state.submolts
    /\ state.agent_names \cup d_ckpt.state.agent_names \subseteq d_ckpt.state.agents

\* C1: a run started with resume=True after a killed run, every request of
\* which is answered successfully, ends (unless it is killed itself), and
\* when it ends every post of the feed, every listed or referenced
\* community and every discovered profile is marked done in the persisted
\* checkpoint.
C1_ResumeAfterInterruption ==
    /\ []((r_pc = "finish" /\ ResumedAfterKill) => AllDoneOnDisk)
    /\ ((Running /\ resume /\ r_before = "killed") ~> (r_pc \in {"finish", "idle"}))

\* C1 witness: a resumed run after a kill has ended with everything done,
\* having started from a checkpoint that held part of the work and having
\* fetched the profile of a commenter itself.
C1_Witness ==
    /\ r_pc = "finish"
    /\ ResumedAfterKill
    /\ AllDoneOnDisk
    /\ loaded.posts # {}
    /\ A2 \in d_ckpt.state.agents \ loaded.agents
    /\ fetched[A2] = 1

\* The current run was started with resume=True after a completed run, and
\* the remote data has not changed since before that run started.
ResumedAfterCompleted == resume /\ r_before = "completed" /\ r_quiet = 2

\* Exactly one fetch for each discovered profile that was not marked done.
ProfilesFetchedOnce ==
    \A a \in state.agent_names \ loaded.agents : fetched[a] = 1

\* The count last recorded for a done post is not below the one the feed
\* declares.
CountUpToDate(p) ==
    /\ p \in DOMAIN loaded.post_comment_counts
    /\ loaded.post_comment_counts[p] >= RemoteCount(p)

\* C2 as stated: a run with resume=True that follows a completed run,
\* against unchanged remote data, issues no detail fetch for a post or a
\* community marked done in the loaded checkpoint, and exactly one fetch for
\* each discovered profile not marked done.
C2_Original ==
    (r_pc = "finish" /\ ResumedAfterCompleted) =>
        /\ \A p \in loaded.posts : fetched[p] = 0
        /\ \A c \in loaded.submolts : fetched[c] = 0
        /\ ProfilesFetchedOnce

\* C2: a run with resume=True that follows a completed run, against
\* unchanged remote data, issues no detail fetch for a community marked done
\* in the loaded checkpoint nor for a post marked done whose recorded
\* comment count is not below the count the feed declares (a done post whose
\* refresh failed in the earlier run is fetched again), and exactly one fetch
\* for each discovered profile not marked done.
C2_ResumeWithoutDuplicates ==
    (r_pc = "finish" /\ ResumedAfterCompleted) =>
        /\ \A p \in loaded.posts : CountUpToDate(p) => fetched[p] = 0
        /\ \A c \in loaded.submolts : fetched[c] = 0
        /\ ProfilesFetchedOnce

\* C2 witness: such a run has ended with every request answered, the done
\* post and community not fetched, and a profile that the earlier run left
\* undone fetched once.
C2_Witness ==
    /\ r_pc = "finish"
    /\ ResumedAfterCompleted
    /\ all_ok
    /\ loaded.posts = PostIds /\ \A p \in PostIds : CountUpToDate(p) /\ fetched[p] = 0
    /\ loaded.submolts = SubmoltNames /\ \A c \in SubmoltNames : fetched[c] = 0
    /\ \E a \in loaded.agent_names \ loaded.agents : fetched[a] = 1


\* the identifiers a phase works on
PhaseIds(ph) ==
    CASE ph = "posts" -> PostIds
      [] ph = "submolts" -> SubmoltNames
      [] ph = "agents" -> AgentNames
\* the discovered set a phase's work list is drawn from
DiscoveredOf(ph, st) ==
    IF ph = "submolts" THEN st.submolt_names ELSE st.agent_names
\* the first run over an empty data directory has reached its end
CompleteFirstRun == r_pc = "finish" /\ r_prev = "none"

\* C21: after a complete run from an empty state the persisted
\* checkpoint's phases[p] is, for each phase, exactly the set of
\* identifiers whose detail fetch returned a document in that phase; an
\* identifier whose fetch returned 404 is in discovered but not in phases,
\* and no item file exists for it.
C21_CheckpointContents ==
    CompleteFirstRun =>
        /\ \A ph \in {"posts", "submolts", "agents"} :
               d_ckpt.state[ph] = {x \in PhaseIds(ph) : tally[x].docs > 0}
        /\ \A ph \in {"submolts", "agents"} : \A x \in PhaseIds(ph) :
               tally[x].absents > 0 =>
                   /\ x \in DiscoveredOf(ph, d_ckpt.state)
                   /\ x \notin d_ckpt.state[ph]
                   /\ d_files[ItemPath(ph, x)] = RNoFile
        /\ \A x \in PostIds :
               tally[x].absents > 0 =>
                   /\ x \notin d_ckpt.state.posts
                   /\ d_files[ItemPath("posts", x)] = RNoFile
\* the post and the community were fetched and saved, the profile of A1
\* was answered with 404 and the profile of A2 with a document
C21_Witness ==
    /\ CompleteFirstRun
    /\ d_ckpt.exists
    /\ d_ckpt.state.posts = {P1} /\ d_ckpt.state.submolts = {S1}
    /\ tally[A1].absents = 1 /\ tally[A2].docs = 1
    /\ d_ckpt.state.agents = {A2}
    /\ A1 \in d_ckpt.state.agent_names
    /\ d_files[ItemPath("agents", A1)] = RNoFile

\* the feed entries of post x, and the identifiers of a work list
EntriesOf(x) == {all_items[k] : k \in {n \in DOMAIN all_items : all_items[n].id = x}}
Listed == {all_items[k].id : k \in DOMAIN all_items}
IdsOf(w) == {w[k] : k \in DOMAIN w}
\* the count last recorded for x is below the count entry e declares
Grown(e, st) ==
    /\ e.id \in DOMAIN st.post_comment_counts
    /\ e.comment_count > st.post_comment_counts[e.id]
\* no count is recorded for the post of entry e
Uncounted(e, st) == e.id \notin DOMAIN st.post_comment_counts
\* what the split hands to the posts loop: post x is in the work list / is
\* among the refreshed ones (after the step that computed the split)
Queued(x) == x \in IdsOf(work')
AsRefresh(x) == x \in refresh_ids'

\* C23 as stated: a feed post not marked done is fetched as new; a post
\* marked done is re-fetched if and only if the feed declares a larger
\* comment count than the count last recorded for it; a post marked done
\* whose tracked count has not grown is skipped in that run.
C23_Original ==
    [][(r_pc = "feed_done" /\ r_pc' # "feed_done") =>
          \A x \in Listed :
              /\ x \notin state.posts => (Queued(x) /\ ~AsRefresh(x))
              /\ x \in state.posts =>
                     /\ Queued(x) <=> \E e \in EntriesOf(x) : Grown(e, state)
                     /\ Queued(x) <=> AsRefresh(x)]_vars
\* C23: a feed post not marked done is fetched as new; a post marked done
\* is re-fetched if and only if no comment count is recorded for it or the
\* feed declares a larger comment count than the one recorded; every other
\* post marked done is skipped in that run.
C23_RefreshPolicy ==
    [][(r_pc = "feed_done" /\ r_pc' # "feed_done") =>
          \A x \in Listed :
              /\ x \notin state.posts => (Queued(x) /\ ~AsRefresh(x))
              /\ x \in state.posts =>
                     /\ Queued(x) <=>
                            \E e \in EntriesOf(x) :
                                Uncounted(e, state) \/ Grown(e, state)
                     /\ Queued(x) <=> AsRefresh(x)]_vars
\* a post marked done with no recorded count, which the feed lists with
\* no comments, stands in the work list as a refresh
C23_Witness ==
    /\ r_pc = "loop" /\ r_i = 0 /\ phase = "posts"
    /\ loaded.posts = {P1} /\ DOMAIN loaded.post_comment_counts = {}
    /\ work = <<P1>> /\ refresh_ids = {P1}
    /\ fetched[P1] = 0

\* C24: within one run each item identifier is detail-fetched, and its
\* file written, at most once in its phase, for every sequence of feed
\* pages the service may return.
C24_AtMostOnce ==
    \A x \in AllIds : fetched[x] <= 1 /\ tally[x].writes <= 1
\* the feed listed post P1 twice: it was fetched twice and its file was
\* written twice in the one run
C24_Witness ==
    /\ phase = "posts" /\ work = <<P1, P1>>
    /\ fetched[P1] = 2 /\ tally[P1].docs = 2 /\ tally[P1].writes = 2

\* the zip loop is about to overwrite the file of post x with a document
\* that differs from the complete document stored there
Overwriting(x) ==
    /\ r_pc = "write" /\ phase = "posts" /\ r_batch[r_j] = x
    /\ d_files[ItemPath("posts", x)].kind = "doc"
    /\ d_files[ItemPath("posts", x)].count # r_results[r_j].count
\* C22: when a post already marked done is re-fetched and the new document
\* differs from the stored one, the complete previous document is in the
\* archive before the new document overwrites the primary file.
C22_ArchiveBeforeOverwrite ==
    \A x \in PostIds :
        (Overwriting(x) /\ x \in state.posts) =>
            d_files[ItemPath("posts", x)] \in d_archive
\* post P1 was new to the run and listed twice; the first document is
\* stored and marked done, a comment arrived, and the second document is
\* about to replace the first, which is not in the archive
C22_Witness ==
    /\ Overwriting(P1) /\ P1 \in state.posts /\ P1 \notin loaded.posts
    /\ tally[P1].writes = 1
    /\ d_files[ItemPath("posts", P1)] = RDoc(P1, 0)
    /\ r_results[r_j] = RDoc(P1, 1)
    /\ d_archive = {}
\* what the code does give: a post that the split put among the refreshed
\* ones is archived before a differing document replaces its file
C22_ArchiveOnRefresh ==
    \A x \in PostIds :
        (Overwriting(x) /\ x \in refresh_ids) =>
            d_files[ItemPath("posts", x)] \in d_archive


\* the detail fetches of x that have settled in the current run, and the
\* fetches issued for the identifiers of a set
SettledFetches(x) == tally[x].docs + tally[x].absents
AllSettled(S) == \A x \in S : fetched[x] = SettledFetches(x)
SomeIssued(S) == \E x \in S : fetched[x] > 0
IssuesFetch(S) == \E x \in S : fetched'[x] > fetched[x]

\* C31: the phases run in the sequence posts, communities, profiles: once a
\* community detail fetch is issued every post detail fetch of the run has
\* settled and no further one is issued, once a profile fetch is issued every
\* community detail fetch has settled and no further one is issued; and at
\* the end of the run every discovered name that the loaded checkpoint did
\* not mark done has had its profile fetched in this run.
C31_PhaseOrder ==
    /\ [](/\ SomeIssued(SubmoltNames) => AllSettled(PostIds)
          /\ SomeIssued(AgentNames) => AllSettled(PostIds \cup SubmoltNames)
          /\ r_pc = "finish" =>
                 \A n \in state.agent_names \ loaded.agents : fetched[n] > 0)
    /\ [][/\ IssuesFetch(PostIds) => ~SomeIssued(SubmoltNames \cup AgentNames)
          /\ IssuesFetch(SubmoltNames) => ~SomeIssued(AgentNames)]_vars
\* a run has ended in which the post, then the community, then the profiles
\* were fetched, among them the profile of a name the run discovered itself
C31_Witness ==
    /\ r_pc = "finish"
    /\ fetched[P1] = 1 /\ fetched[S1] = 1
    /\ \E n \in state.agent_names \ loaded.agent_names : fetched[n] = 1
    /\ AllSettled(AllIds)

\* what checkpoint.json holds, the empty state when there is no such file
StoredState == IF d_ckpt.exists THEN d_ckpt.state ELSE EmptyState
\* every item marked done and every name discovered in memory is on disk
AllPersisted ==
    /\ \A k \in {"posts", "submolts", "agents", "agent_names", "submolt_names"} :
           state[k] \subseteq StoredState[k]
\* a phase of the current run has ended and the next has not changed the
\* state yet: the posts phase (the community listing is being walked), the
\* communities phase, the profiles phase
PhaseEnded ==
    \/ r_pc \in {"paginate", "sub_done"} /\ endpoint = "/submolts"
    \/ r_pc \in {"agents_prep", "finish"}

\* C35: at the end of each of the three phases the checkpoint is persisted
\* unconditionally: once a phase of a run has ended, checkpoint.json has
\* been written by that run or an earlier one and contains every item
\* marked done and every name discovered up to that point of the run.
C35_PhaseEndPersistence == PhaseEnded => (d_ckpt.exists /\ AllPersisted)
\* the feed request of the first run failed, so the posts phase had nothing
\* to fetch: it has ended and there is no checkpoint.json
C35_Witness ==
    /\ r_pc = "paginate" /\ endpoint = "/submolts"
    /\ r_prev = "none" /\ ~all_ok
    /\ fetched[P1] = 0
    /\ ~d_ckpt.exists
\* what the code does give: a phase that had work is followed by a save,
\* and a phase without work adds nothing to the state as long as the names
\* the feed shows for a done post are those its stored document showed
C35_NothingUnsaved == PhaseEnded => AllPersisted


\* the identifiers the checkpoint file lists as done in a phase
ListedDone(ph) ==
    IF ~d_ckpt.exists THEN {}
    ELSE CASE ph = "posts" -> d_ckpt.state.posts
           [] ph = "submolts" -> d_ckpt.state.submolts
           [] OTHER -> d_ckpt.state.agents
\* C38: at every point of execution, also after a kill at any step, every
\* identifier the checkpoint file lists as done in a phase has a completely
\* written item file on disk.
C38_CheckpointImpliesFile ==
    \A ph \in {"posts", "submolts", "agents"} : \A x \in ListedDone(ph) :
        d_files[ItemPath(ph, x)].kind = "doc"
\* a run that re-fetched post P1, listed as done by the checkpoint, was
\* killed between the opening and the completion of write_text
C38_Witness ==
    /\ r_pc = "idle" /\ r_prev = "killed"
    /\ P1 \in ListedDone("posts")
    /\ d_files[ItemPath("posts", P1)] = RPartial
\* what the code does give in download_moltbook: the file of a listed
\* identifier was completely written once, so it is there, whole or cut
\* short by a later write
C38_ListedHasFile ==
    \A ph \in {"posts", "submolts", "agents"} : \A x \in ListedDone(ph) :
        d_files[ItemPath(ph, x)].kind \in {"doc", "partial"}
\* what run_batch gives, writing through atomic_write: an identifier the
\* checkpoint file lists in the phase of the job has its whole document in
\* its file
C38_BatchListedHasFile ==
    \A x \in ItemIds :
        (ckpt.exists /\ x \in ckpt.phases[state_phase]) =>
            files[FilenameFn(x)] = Doc(x)


\* C39: over any sequence of runs on one data directory (completed, killed
\* between an item-file write and the next checkpoint save, or started with
\* resume=False), a post file on disk is never overwritten by a document
\* that differs from it unless the old document was archived first.
C39_NoSilentLoss ==
    \A x \in PostIds :
        Overwriting(x) => d_files[ItemPath("posts", x)] \in d_archive
\* a run started with resume=False after a completed run: post P1 counts as
\* new, a comment arrived since, and the first write of the run is about to
\* replace the stored document, which is not in the archive
C39_Witness ==
    /\ ~resume /\ r_prev = "completed"
    /\ Overwriting(P1) /\ tally[P1].writes = 0
    /\ P1 \notin state.posts /\ P1 \notin refresh_ids
    /\ d_files[ItemPath("posts", P1)] = RDoc(P1, 0)
    /\ r_results[r_j] = RDoc(P1, 1)
    /\ d_archive = {}
\* the same loss in a resumed run (a reachable state): the run before was
\* killed after the file of P1 was written and before a checkpoint listed P1
C39_LossAfterKill ==
    /\ resume /\ r_prev = "killed"
    /\ Overwriting(P1) /\ tally[P1].writes = 0
    /\ P1 \notin loaded.posts
    /\ d_files[ItemPath("posts", P1)] \notin d_archive


(***************************************************************************)
(* Properties of the communities and profiles loops over named items       *)
(***************************************************************************)
\* the item files in the directory of the phase
ItemFiles == {f \in DOMAIN o_files : o_files[f] # RNoFile}
\* no two names marked done share an output file
SafeNamesDistinct ==
    \A x, y \in o_done : x # y => ItemPath(o_phase, x) # ItemPath(o_phase, y)

\* C40: in the communities and profiles phases two distinct identifiers
\* that are both marked done are never written to the same output file, so
\* the number of item files in the phase directory equals the number of
\* identifiers marked done and each done identifier's file holds that
\* identifier's own document.
C40_OneFilePerDone ==
    /\ SafeNamesDistinct
    /\ Cardinality(ItemFiles) = Cardinality(o_done)
    /\ \A x \in o_done : o_files[ItemPath(o_phase, x)] = RemoteDoc(o_phase, x)
\* the profiles of "a/" and "a?" were both fetched and marked done: the
\* directory holds the one file a_.json with the profile fetched last
C40_Witness ==
    /\ o_phase = "agents" /\ o_j = Len(o_work) + 2
    /\ o_work = <<<<"a", "/">>, <<"a", "?">>>>
    /\ o_saved = {<<"a", "/">>, <<"a", "?">>}
    /\ ItemFiles = {<<"agents", <<"a", "_">>>>}
    /\ o_files[<<"agents", <<"a", "_">>>>] = RemoteDoc("agents", <<"a", "?">>)
\* what the code does give: as long as the names marked done have
\* different sanitized names, there is one file per done name and it holds
\* that name's document
C40_OneFilePerSafeName ==
    SafeNamesDistinct =>
        /\ Cardinality(ItemFiles) = Cardinality(o_done)
        /\ \A x \in o_done :
               o_files[ItemPath(o_phase, x)] = RemoteDoc(o_phase, x)
====
